---------------------------- MODULE Spec2Model ----------------------------
(***************************************************************************)
(* Model of the Chatty task scheduler: the task store (taskTools.py), the  *)
(* recurrence resolver, the due-task scanner, the delivery client and the  *)
(* poll loop (scheduler.py).                                               *)
(*                                                                         *)
(* Instants are whole seconds since 2024-01-01T00:00:00Z.  An optional     *)
(* value (Python's None or a value) is a set with at most one element:     *)
(* None is {} and a value v is {v}.                                        *)
(*                                                                         *)
(* A schedule fragment (the VEVENT text) is a record of what its text      *)
(* holds: the BEGIN/END markers, the DTSTART property, the RRULE property, *)
(* the RDATE and EXDATE instants in text order, and the words a free-text  *)
(* line (SUMMARY) carries.  The icalendar accessors the resolver calls     *)
(* (event.get('dtstart'), 'rrule', 'rdates', 'exdates') are taken to       *)
(* return the property they name, and dateutil's rrule.after the first     *)
(* occurrence after an instant: the resolver code is translated on top of  *)
(* that contract.                                                          *)
(***************************************************************************)
EXTENDS Integers, Sequences, FiniteSets, TLC

VARIABLES
    file,        \* scheduled_tasks.json: a status and the list it holds
    clock,       \* wall clock, datetime.now(timezone.utc)
    pc,          \* position of the scheduler's main loop
    FIRED_ONCE_TASK_IDS,
    cycle,       \* number of poll cycles started (history)
    polls,       \* the now_utc of every cycle so far (history)
    deliveries,  \* every call of inject_prompt_via_api so far (history)
    evals,       \* what the last cycle did with each record (history)
    gone,        \* ids deleted with success, and the cycles that saw them since
    boots,       \* the cycle count at every start of the process (history)
    cpc,         \* store callers: position inside create/delete
    ctasks,      \* store callers: the list the pending operation loaded
    cargs,       \* store callers: arguments of the pending operation
    result,      \* what the store call that returned in the last step returned
    nextId,      \* ids minted so far (uuid4 never repeats)
    last,        \* the last store step taken (history)
    prevFile,    \* the file before the last store step (history)
    race,        \* the save the last save came right after (history)
    rin,         \* function harness (resolver, delivery client): the input
    rout         \* function harness: the output

vars == <<file, clock, pc, FIRED_ONCE_TASK_IDS, cycle, polls, deliveries, evals,
          gone, boots,
          cpc, ctasks, cargs, result, nextId, last, prevFile, race, rin, rout>>

schedVars == <<clock, pc, FIRED_ONCE_TASK_IDS, cycle, polls, deliveries, evals,
               gone, boots>>
storeVars == <<cpc, ctasks, cargs, result, nextId, last, prevFile, race>>
resolverVars == <<rin, rout>>

---------------------------------------------------------------------------
(* Program constants *)

POLL_INTERVAL_SECONDS == 10

\* catch_up_window = timedelta(minutes=5)
CatchUpMinutes == 5

catch_up_window == CatchUpMinutes * 60

\* grace_period_for_just_missed = timedelta(seconds=POLL_INTERVAL_SECONDS * 2)
grace_period_for_just_missed == POLL_INTERVAL_SECONDS * 2

\* timedelta(seconds=POLL_INTERVAL_SECONDS / 2)
due_lookahead == POLL_INTERVAL_SECONDS \div 2

---------------------------------------------------------------------------
(* Optional values *)

None == {}

Some(v) == {v}

Val(o) == CHOOSE v \in o : TRUE

---------------------------------------------------------------------------
(* Datetimes as the fragment writes them: a wall-clock reading and a zone. *)

Hour == 60 * 60
Day == 24 * Hour

Tzs == {"naive", "utc", "plus1"}

utcoffset(tz) == IF tz = "plus1" THEN Hour ELSE 0

Dt(wall, tz) == [wall |-> wall, tz |-> tz]

\* _make_dt_aware: a naive datetime is read as UTC, an aware one is
\* converted to UTC.  The result is the UTC instant.
make_dt_aware(dt_val) ==
    IF dt_val.tz = "naive"
    THEN dt_val.wall
    ELSE dt_val.wall - utcoffset(dt_val.tz)

---------------------------------------------------------------------------
(* Recurrence rules: FREQ, INTERVAL, COUNT (0: none), UNTIL (optional).     *)

FreqSeconds(freq) ==
    CASE freq = "SECONDLY" -> 1
      [] freq = "MINUTELY" -> 60
      [] freq = "HOURLY"   -> Hour
      [] freq = "DAILY"    -> Day

Rule(freq, interval, count, until) ==
    [freq |-> freq, interval |-> interval, count |-> count, until |-> until]

\* rrule.rrule(dtstart=..., **rrule_params) accepts the parameters; it
\* raises on the others.
ValidRule(rule) ==
    /\ rule.freq \in {"SECONDLY", "MINUTELY", "HOURLY", "DAILY"}
    /\ rule.interval >= 1

Period(rule) == FreqSeconds(rule.freq) * rule.interval

\* The k-th occurrence (k = 0, 1, ...) of rrule.rrule(dtstart=..., **params)
Occurrence(rule, dtstart, k) == dtstart + k * Period(rule)

InRule(rule, dtstart, k) ==
    /\ rule.count = 0 \/ k < rule.count
    /\ rule.until = None \/ Occurrence(rule, dtstart, k) <= Val(rule.until)

\* rule.after(dt, inc): the first occurrence after dt (at dt too when inc),
\* None when the rule yields no such occurrence.
RuleAfter(rule, dtstart, dt, inc) ==
    LET from == IF inc THEN dt ELSE dt + 1
        k    == IF from <= dtstart
                THEN 0
                ELSE (from - dtstart + Period(rule) - 1) \div Period(rule)
    IN IF InRule(rule, dtstart, k)
       THEN Some(Occurrence(rule, dtstart, k))
       ELSE None

---------------------------------------------------------------------------
(* Schedule fragments *)

VEvent(begin, end, dtstart, rrule, rdates, exdates, summary) ==
    [kind |-> "vevent", begin |-> begin, end |-> end, dtstart |-> dtstart,
     rrule |-> rrule, rdates |-> rdates, exdates |-> exdates,
     summary |-> summary]

\* Values of schedule_vevent that are not an event text: the empty string
\* (or a missing key), text that is no calendar data, a non-string value.
NotEvent(kind) ==
    [kind |-> kind, begin |-> FALSE, end |-> FALSE, dtstart |-> None,
     rrule |-> None, rdates |-> <<>>, exdates |-> <<>>, summary |-> ""]

EmptyText == NotEvent("empty")
GarbageText == NotEvent("garbage")
NonString == NotEvent("nonstring")

\* marker in vevent_str (substring test on the text)
TextContains(v, marker) ==
    /\ v.kind = "vevent"
    /\ \/ marker = "BEGIN:VEVENT" /\ v.begin
       \/ marker = "END:VEVENT" /\ v.end
       \/ marker = "DTSTART" /\ v.dtstart # None
       \/ marker = "RRULE" /\ v.rrule # None
       \/ marker = "RDATE" /\ v.rdates # <<>>
       \/ marker = v.summary /\ marker # ""

\* Mutant of ParsesAsEvent: a block without its END line is accepted.
ParsesAsEventLenient(v) == v.kind = "vevent" /\ v.begin

\* iCalEvent.from_ical(vevent_str) returns an event: one BEGIN:VEVENT ...
\* END:VEVENT block; anything else raises.
ParsesAsEvent(v) == v.kind = "vevent" /\ v.begin /\ v.end

---------------------------------------------------------------------------
(* Recurrence resolver: calculate_next_occurrence                          *)

\* Mutant of WithinCatchUp: no start instant is too old.
WithinCatchUpAlways(dtstart_val_utc, now_utc) == TRUE

\* Mutant of WithinCatchUp: the window's edge itself is left out.
WithinCatchUpStrict(dtstart_val_utc, now_utc) ==
    dtstart_val_utc > now_utc - catch_up_window

\* dtstart_val_utc >= now_utc - catch_up_window
WithinCatchUp(dtstart_val_utc, now_utc) ==
    dtstart_val_utc >= now_utc - catch_up_window

\* Mutant of effective_search_start: a grace of one poll interval.
effective_search_start_narrow(now_utc) == now_utc - POLL_INTERVAL_SECONDS

\* Mutant of effective_search_start: a grace of three poll intervals.
effective_search_start_wide(now_utc) == now_utc - POLL_INTERVAL_SECONDS * 3

\* effective_search_start_utc = now_utc - grace_period_for_just_missed
effective_search_start(now_utc) == now_utc - grace_period_for_just_missed

\* Mutant of FirstAfterEffectiveStart: inc=False.
FirstAfterEffectiveStartExclusive(rule, dtstart_val_utc, now_utc) ==
    RuleAfter(rule, dtstart_val_utc, effective_search_start(now_utc), FALSE)

\* rule.after(effective_search_start_utc, inc=True)
FirstAfterEffectiveStart(rule, dtstart_val_utc, now_utc) ==
    RuleAfter(rule, dtstart_val_utc, effective_search_start(now_utc), TRUE)

\* The candidate before RDATE and EXDATE processing.
BaseCandidate(v, dtstart_val_utc, now_utc) ==
    IF v.rrule = None
    THEN IF WithinCatchUp(dtstart_val_utc, now_utc)
         THEN Some(dtstart_val_utc)
         ELSE None
    ELSE FirstAfterEffectiveStart(Val(v.rrule), dtstart_val_utc, now_utc)

\* The loop over the RDATE instants, from the i-th on: an instant at or
\* after the search start that is earlier than the candidate (or any, when
\* there is no candidate) becomes the candidate.
RECURSIVE RdateLoop(_, _, _, _)
RdateLoop(rdates, i, search_start, cand) ==
    IF i > Len(rdates)
    THEN cand
    ELSE LET rdate_val == make_dt_aware(rdates[i])
             take == /\ rdate_val >= search_start
                     /\ (cand = None \/ rdate_val < Val(cand))
         IN RdateLoop(rdates, i + 1, search_start,
                      IF take THEN Some(rdate_val) ELSE cand)

\* Mutant of IsExcluded: no candidate is excluded.
IsExcludedNever(exdates, cand) == FALSE

\* is_excluded: the candidate equals an EXDATE instant (microseconds
\* dropped on both sides; model instants are whole seconds).
IsExcluded(exdates, cand) ==
    \E i \in 1..Len(exdates) : make_dt_aware(exdates[i]) = cand

\* Mutant of RdateRecheck: any instant before the new candidate is taken.
RECURSIVE RdateRecheckAnyEarlier(_, _, _, _)
RdateRecheckAnyEarlier(rdates, i, exdate_val, cand) ==
    IF i > Len(rdates)
    THEN cand
    ELSE LET rdate_val_inner == make_dt_aware(rdates[i])
             take == rdate_val_inner < cand
         IN RdateRecheckAnyEarlier(rdates, i + 1, exdate_val,
                                   IF take THEN rdate_val_inner ELSE cand)

\* The re-check of the RDATEs after an exclusion: an instant after the
\* excluding EXDATE and before the new candidate becomes the candidate.
RECURSIVE RdateRecheck(_, _, _, _)
RdateRecheck(rdates, i, exdate_val, cand) ==
    IF i > Len(rdates)
    THEN cand
    ELSE LET rdate_val_inner == make_dt_aware(rdates[i])
             take == rdate_val_inner > exdate_val /\ rdate_val_inner < cand
         IN RdateRecheck(rdates, i + 1, exdate_val,
                         IF take THEN rdate_val_inner ELSE cand)

\* The EXDATE block: an excluded candidate of a recurring schedule is
\* replaced by the rule's next occurrence strictly after it (and then by an
\* RDATE in between); an excluded candidate of a schedule without a rule
\* becomes None.  The replacement is not compared with the EXDATEs again.
ApplyExdates(v, dtstart_val_utc, cand) ==
    IF cand = None \/ v.exdates = <<>> \/ ~IsExcluded(v.exdates, Val(cand))
    THEN cand
    ELSE IF v.rrule # None
         THEN LET exdate_val == Val(cand)
                  next_after_exclusion ==
                      RuleAfter(Val(v.rrule), dtstart_val_utc, Val(cand), FALSE)
              IN IF v.rdates # <<>> /\ next_after_exclusion # None
                 THEN Some(RdateRecheck(v.rdates, 1, exdate_val,
                                        Val(next_after_exclusion)))
                 ELSE next_after_exclusion
         ELSE None

\* Mutant of RdateLoopRaises: the RDATE loop never raises.
RdateLoopNeverRaises(v) == FALSE

\* The RDATE loop raises at its first instant when the schedule has no
\* RRULE: it compares with effective_search_start_utc, a name assigned in
\* the RRULE branch only.
RdateLoopRaises(v) == v.rdates # <<>> /\ v.rrule = None

\* calculate_next_occurrence(task_id_for_debug, vevent_str, now_utc).
\* Every exception inside is caught and turned into None: a text that does
\* not parse, rule parameters that rrule.rrule rejects, and the read of
\* effective_search_start_utc in the RDATE loop of a schedule without
\* RRULE, where that name was never assigned.
calculate_next_occurrence(vevent_str, now_utc) ==
    IF ~ParsesAsEvent(vevent_str)
    THEN None
    ELSE IF vevent_str.dtstart = None
    THEN None
    ELSE IF vevent_str.rrule # None /\ ~ValidRule(Val(vevent_str.rrule))
    THEN None
    ELSE LET dtstart_val_utc == make_dt_aware(Val(vevent_str.dtstart))
             next_occ_candidate ==
                 BaseCandidate(vevent_str, dtstart_val_utc, now_utc)
         IN IF RdateLoopRaises(vevent_str)
            THEN None
            ELSE ApplyExdates(vevent_str, dtstart_val_utc,
                     RdateLoop(vevent_str.rdates, 1,
                               effective_search_start(now_utc),
                               next_occ_candidate))

---------------------------------------------------------------------------
(* Resolver harness: calculate_next_occurrence applied to one input.       *)

\* 2024-01-01T09:00:00Z
S0 == 9 * Hour

MaxCount == 2
MaxNowIdx == 62
MaxK == 4

NowStep == POLL_INTERVAL_SECONDS \div 2

UtcAt(t) == Dt(t, "utc")

DtStarts ==
    {Some(UtcAt(S0)), Some(Dt(S0 + Hour, "plus1")), Some(Dt(S0, "naive")), None}

MinutelyRule == Rule("MINUTELY", 1, 0, None)
DailyRule == Rule("DAILY", 1, 0, None)

\* A rule whose parameters rrule.rrule rejects
InvalidRule == Rule("FORTNIGHTLY", 1, 0, None)

RRules ==
    {None, Some(MinutelyRule), Some(Rule("MINUTELY", 1, MaxCount, None)),
     Some(Rule("SECONDLY", 30, 0, Some(S0 + 90))), Some(DailyRule)}

RDateLists ==
    {<<>>, <<UtcAt(S0 + 90)>>, <<UtcAt(S0 + 150), Dt(S0 + 30 + Hour, "plus1")>>}

ExDateLists ==
    {<<>>, <<UtcAt(S0)>>, <<UtcAt(S0 + 60)>>,
     <<UtcAt(S0 + 60), Dt(S0 + 120 + Hour, "plus1")>>,
     <<UtcAt(S0 + 60), UtcAt(S0 + 90)>>}

ResolverFragments ==
    {VEvent(TRUE, TRUE, d, r, a, x, "") :
        d \in DtStarts, r \in RRules, a \in RDateLists, x \in ExDateLists}
    \cup {GarbageText, VEvent(TRUE, FALSE, Some(UtcAt(S0)), None, <<>>, <<>>, ""),
          VEvent(TRUE, TRUE, Some(UtcAt(S0)), Some(InvalidRule), <<>>, <<>>, "")}

\* 2024-01-03T08:00:00Z, 09:00:00Z and 09:00:05Z, and a grid around S0
ResolverNows ==
    {S0 + NowStep * i : i \in (-2)..MaxNowIdx}
    \cup {S0 + 2 * Day - Hour, S0 + 2 * Day, S0 + 2 * Day + 5}

ResolverIdle == rin = [vevent |-> GarbageText, now |-> 0]
                /\ rout = [done |-> FALSE, value |-> None]

ResolverInit ==
    /\ rin \in [vevent : ResolverFragments, now : ResolverNows]
    /\ rout = [done |-> FALSE, value |-> None]

ResolverCall ==
    /\ ~rout.done
    /\ rout' = [done |-> TRUE,
                value |-> calculate_next_occurrence(rin.vevent, rin.now)]
    /\ UNCHANGED <<rin, file, schedVars, storeVars>>

---------------------------------------------------------------------------
(* The persisted collection and its records                                *)

Task(id, conversation_id, user_prompt, schedule_vevent) ==
    [id |-> id, conversation_id |-> conversation_id,
     user_prompt |-> user_prompt, schedule_vevent |-> schedule_vevent,
     status |-> "pending"]

\* The file: missing, empty, text that is not JSON, JSON that is not a
\* list, or a JSON list of records.
FileOf(status, tasks) == [status |-> status, tasks |-> tasks]

ListFile(tasks) == FileOf("list", tasks)

MissingFile == FileOf("missing", <<>>)

\* _load_tasks_for_scheduler: the list the file holds; [] when the file is
\* missing, empty, not JSON, not a list, or cannot be read.
load_tasks_for_scheduler(f, readable) ==
    IF readable /\ f.status = "list" THEN f.tasks ELSE <<>>

---------------------------------------------------------------------------
(* Delivery client: inject_prompt_via_api                                  *)

\* What requests.post comes back with: a response carrying a status code,
\* or a requests.exceptions.RequestException (status 0 here).
Answer(status_code) == [kind |-> "answer", status_code |-> status_code]

RequestException(kind) == [kind |-> kind, status_code |-> 0]

Timeout == RequestException("timeout")

ConnectionError == RequestException("connection_error")

\* The outcomes the scanner's deliveries are drawn from
Responses == {Answer(200), Answer(204), Answer(500), Timeout}

\* True on status 200; False on any other status and on a
\* requests.exceptions.RequestException (timeout, connection error).
inject_prompt_via_api(response) ==
    response.kind = "answer" /\ response.status_code = 200

\* Delivery harness: inject_prompt_via_api applied to one outcome of the
\* request, any status code from 100 to 599 or a failed request.
MinStatus == 100
MaxStatus == 599

DeliveryResponses ==
    {Answer(n) : n \in MinStatus..MaxStatus} \cup {Timeout, ConnectionError}

DeliveryInit ==
    /\ rin \in [response : DeliveryResponses]
    /\ rout = [done |-> FALSE, value |-> FALSE]

DeliveryCall ==
    /\ ~rout.done
    /\ rout' = [done |-> TRUE, value |-> inject_prompt_via_api(rin.response)]
    /\ UNCHANGED <<rin, file, schedVars, storeVars>>

---------------------------------------------------------------------------
(* Due-task scanner: process_scheduled_tasks                               *)

\* is_one_off: neither "RRULE" nor "RDATE" occurs in the upper-cased text.
is_one_off(vevent) ==
    ~TextContains(vevent, "RRULE") /\ ~TextContains(vevent, "RDATE")

\* Mutant of IsDue: a look-ahead of a whole poll interval.
IsDueWholeInterval(next_occurrence_utc, now_utc) ==
    next_occurrence_utc <= now_utc + POLL_INTERVAL_SECONDS

\* next_occurrence_utc <= now_utc + timedelta(seconds=POLL_INTERVAL_SECONDS / 2)
IsDue(next_occurrence_utc, now_utc) ==
    next_occurrence_utc <= now_utc + due_lookahead

\* Mutant of MissingFields: only the conversation_id is looked at.
MissingFieldsConversationOnly(task) == task.conversation_id = ""

\* not conversation_id or not user_prompt
MissingFields(task) == task.conversation_id = "" \/ task.user_prompt = ""

\* Mutant of MarkFired: the id is added whatever the classification.
MarkFiredAnyTask(fired, task, ok) ==
    IF ok THEN fired \cup {task.id} ELSE fired

\* Mutant of MarkFired: the id is added whatever the delivery returned.
MarkFiredAlways(fired, task, ok) ==
    IF is_one_off(task.schedule_vevent) THEN fired \cup {task.id} ELSE fired

\* FIRED_ONCE_TASK_IDS after a delivery of task that returned ok
MarkFired(fired, task, ok) ==
    IF ok /\ is_one_off(task.schedule_vevent) THEN fired \cup {task.id} ELSE fired

Eval(i, task, what, occ) ==
    [index |-> i, id |-> task.id, what |-> what, occ |-> occ]

Delivery(n, now_utc, i, task, occ, ok) ==
    [cycle |-> n, now |-> now_utc, index |-> i, id |-> task.id,
     occ |-> occ, ok |-> ok]

\* Mutant of ScanFrom: now is taken again for every record, a second later.
RECURSIVE ScanFromFreshNow(_, _, _, _, _, _)
ScanFromFreshNow(tasks, i, now_utc, n, responses, st) ==
    IF i > Len(tasks)
    THEN st
    ELSE
    LET task == tasks[i]
        vevent_str == task.schedule_vevent
        Skip(what) ==
            ScanFromFreshNow(tasks, i + 1, now_utc + 1, n, responses,
                     [st EXCEPT !.evals = Append(@, Eval(i, task, what, None))])
    IN
    IF vevent_str.kind = "nonstring"
    THEN [st EXCEPT !.evals = Append(@, Eval(i, task, "raised", None)),
                    !.raised = TRUE]
    ELSE IF is_one_off(vevent_str) /\ task.id \in st.fired
    THEN Skip("already_fired")
    ELSE IF vevent_str.kind = "empty"
    THEN Skip("no_vevent")
    ELSE
    LET next_occurrence_utc == calculate_next_occurrence(vevent_str, now_utc)
        Seen(what) ==
            ScanFromFreshNow(tasks, i + 1, now_utc + 1, n, responses,
                     [st EXCEPT !.evals =
                         Append(@, Eval(i, task, what, next_occurrence_utc))])
    IN
    IF next_occurrence_utc = None
    THEN Seen("no_occurrence")
    ELSE IF ~IsDue(Val(next_occurrence_utc), now_utc)
    THEN Seen("not_due")
    ELSE IF MissingFields(task)
    THEN Seen("missing_fields")
    ELSE
    LET ok == inject_prompt_via_api(responses[i])
    IN ScanFromFreshNow(tasks, i + 1, now_utc + 1, n, responses,
           [st EXCEPT
               !.fired = MarkFired(@, task, ok),
               !.deliveries =
                   Append(@, Delivery(n, now_utc, i, task,
                                      Val(next_occurrence_utc), ok)),
               !.evals = Append(@, Eval(i, task, "delivered",
                                        next_occurrence_utc))])

\* Mutant of ScanFrom: a record that raises is skipped and the loop goes on.
RECURSIVE ScanFromSkippingBad(_, _, _, _, _, _)
ScanFromSkippingBad(tasks, i, now_utc, n, responses, st) ==
    IF i > Len(tasks)
    THEN st
    ELSE
    LET task == tasks[i]
        vevent_str == task.schedule_vevent
        Skip(what) ==
            ScanFromSkippingBad(tasks, i + 1, now_utc, n, responses,
                     [st EXCEPT !.evals = Append(@, Eval(i, task, what, None))])
    IN
    IF vevent_str.kind = "nonstring"
    THEN Skip("raised")
    ELSE IF is_one_off(vevent_str) /\ task.id \in st.fired
    THEN Skip("already_fired")
    ELSE IF vevent_str.kind = "empty"
    THEN Skip("no_vevent")
    ELSE
    LET next_occurrence_utc == calculate_next_occurrence(vevent_str, now_utc)
        Seen(what) ==
            ScanFromSkippingBad(tasks, i + 1, now_utc, n, responses,
                     [st EXCEPT !.evals =
                         Append(@, Eval(i, task, what, next_occurrence_utc))])
    IN
    IF next_occurrence_utc = None
    THEN Seen("no_occurrence")
    ELSE IF ~IsDue(Val(next_occurrence_utc), now_utc)
    THEN Seen("not_due")
    ELSE IF MissingFields(task)
    THEN Seen("missing_fields")
    ELSE
    LET ok == inject_prompt_via_api(responses[i])
    IN ScanFromSkippingBad(tasks, i + 1, now_utc, n, responses,
           [st EXCEPT
               !.fired = MarkFired(@, task, ok),
               !.deliveries =
                   Append(@, Delivery(n, now_utc, i, task,
                                      Val(next_occurrence_utc), ok)),
               !.evals = Append(@, Eval(i, task, "delivered",
                                        next_occurrence_utc))])

\* The for loop over the loaded tasks, from the i-th on.  st holds the
\* registry, the delivery log and the evaluation log so far; responses[i]
\* is what the endpoint answers if the i-th task is delivered.  A record
\* whose schedule_vevent is not a string raises at .upper(): the loop ends
\* there and the exception reaches the main loop.
RECURSIVE ScanFrom(_, _, _, _, _, _)
ScanFrom(tasks, i, now_utc, n, responses, st) ==
    IF i > Len(tasks)
    THEN st
    ELSE
    LET task == tasks[i]
        vevent_str == task.schedule_vevent
        Skip(what) ==
            ScanFrom(tasks, i + 1, now_utc, n, responses,
                     [st EXCEPT !.evals = Append(@, Eval(i, task, what, None))])
    IN
    IF vevent_str.kind = "nonstring"
    THEN [st EXCEPT !.evals = Append(@, Eval(i, task, "raised", None)),
                    !.raised = TRUE]
    ELSE IF is_one_off(vevent_str) /\ task.id \in st.fired
    THEN Skip("already_fired")
    ELSE IF vevent_str.kind = "empty"
    THEN Skip("no_vevent")
    ELSE
    LET next_occurrence_utc == calculate_next_occurrence(vevent_str, now_utc)
        Seen(what) ==
            ScanFrom(tasks, i + 1, now_utc, n, responses,
                     [st EXCEPT !.evals =
                         Append(@, Eval(i, task, what, next_occurrence_utc))])
    IN
    IF next_occurrence_utc = None
    THEN Seen("no_occurrence")
    ELSE IF ~IsDue(Val(next_occurrence_utc), now_utc)
    THEN Seen("not_due")
    ELSE IF MissingFields(task)
    THEN Seen("missing_fields")
    ELSE
    LET ok == inject_prompt_via_api(responses[i])
    IN ScanFrom(tasks, i + 1, now_utc, n, responses,
           [st EXCEPT
               !.fired = MarkFired(@, task, ok),
               !.deliveries =
                   Append(@, Delivery(n, now_utc, i, task,
                                      Val(next_occurrence_utc), ok)),
               !.evals = Append(@, Eval(i, task, "delivered",
                                        next_occurrence_utc))])

\* The id whose delete returned success, having written the file, in the
\* store step taken last before the cycle.
JustDeleted ==
    IF last.op = "delete" /\ last.phase = "saved" /\ last.write = "ok"
    THEN {last.args.task_id}
    ELSE {}

\* gone after a cycle whose evaluations were evs: the ids noted so far and
\* the one just deleted, each with the number of cycles, this one included,
\* that evaluated a record of that id since its delete returned.
SeenSinceDelete(evs) ==
    LET ids == {g.id : g \in gone} \cup JustDeleted
        Before(id) == IF \E g \in gone : g.id = id
                      THEN (CHOOSE g \in gone : g.id = id).seen
                      ELSE 0
        Now(id) == IF \E e \in 1..Len(evs) : evs[e].id = id THEN 1 ELSE 0
    IN {[id |-> id, seen |-> Before(id) + Now(id)] : id \in ids}

MaxCycles == 5
MaxLag == 5
MaxSlowCycles == 1

\* The number of cycles so far that started later than one poll interval
\* after the cycle before.
RECURSIVE SlowCycles(_)
SlowCycles(ps) ==
    IF Len(ps) < 2
    THEN 0
    ELSE SlowCycles(Tail(ps))
         + (IF ps[2] - ps[1] > POLL_INTERVAL_SECONDS THEN 1 ELSE 0)

\* Mutant of ProcessScheduledTasks: the cycle writes the file back without
\* the records now in the registry.
ProcessScheduledTasksPruning ==
    /\ pc = "process"
    /\ cycle < MaxCycles
    /\ \E readable \in BOOLEAN :
       \E responses \in [1..Len(file.tasks) -> Responses] :
          LET tasks == load_tasks_for_scheduler(file, readable)
              st == ScanFrom(tasks, 1, clock, cycle + 1, responses,
                             [fired |-> FIRED_ONCE_TASK_IDS,
                              deliveries |-> deliveries,
                              evals |-> <<>>, raised |-> FALSE])
              Kept(t) == t.id \notin st.fired
          IN /\ FIRED_ONCE_TASK_IDS' = st.fired
             /\ deliveries' = st.deliveries
             /\ evals' = st.evals
             /\ gone' = SeenSinceDelete(st.evals)
             /\ file' = [file EXCEPT !.tasks = SelectSeq(@, Kept)]
    /\ cycle' = cycle + 1
    /\ polls' = Append(polls, clock)
    /\ pc' = "sleep"
    /\ UNCHANGED <<clock, boots, storeVars, resolverVars>>

\* Mutant of ProcessScheduledTasks: a cycle that loads no task empties the
\* registry.
ProcessScheduledTasksForgetting ==
    /\ pc = "process"
    /\ cycle < MaxCycles
    /\ \E readable \in BOOLEAN :
       \E responses \in [1..Len(file.tasks) -> Responses] :
          LET tasks == load_tasks_for_scheduler(file, readable)
              st == ScanFrom(tasks, 1, clock, cycle + 1, responses,
                             [fired |-> FIRED_ONCE_TASK_IDS,
                              deliveries |-> deliveries,
                              evals |-> <<>>, raised |-> FALSE])
          IN /\ FIRED_ONCE_TASK_IDS' = IF tasks = <<>> THEN {} ELSE st.fired
             /\ deliveries' = st.deliveries
             /\ evals' = st.evals
             /\ gone' = SeenSinceDelete(st.evals)
    /\ cycle' = cycle + 1
    /\ polls' = Append(polls, clock)
    /\ pc' = "sleep"
    /\ UNCHANGED <<file, clock, boots, storeVars, resolverVars>>

\* One call of process_scheduled_tasks from the main loop: load the file,
\* take now_utc, evaluate every task in file order.  An exception raised
\* inside is caught by the main loop, which then sleeps as usual.
ProcessScheduledTasks ==
    /\ pc = "process"
    /\ cycle < MaxCycles
    /\ \E readable \in BOOLEAN :
       \E responses \in [1..Len(file.tasks) -> Responses] :
          LET tasks == load_tasks_for_scheduler(file, readable)
              st == ScanFrom(tasks, 1, clock, cycle + 1, responses,
                             [fired |-> FIRED_ONCE_TASK_IDS,
                              deliveries |-> deliveries,
                              evals |-> <<>>, raised |-> FALSE])
          IN /\ FIRED_ONCE_TASK_IDS' = st.fired
             /\ deliveries' = st.deliveries
             /\ evals' = st.evals
             /\ gone' = SeenSinceDelete(st.evals)
    /\ cycle' = cycle + 1
    /\ polls' = Append(polls, clock)
    /\ pc' = "sleep"
    /\ UNCHANGED <<file, clock, boots, storeVars, resolverVars>>

\* Mutant of Sleep: the loop ends with the cycle that raised.
SleepUnlessRaised ==
    /\ pc = "sleep"
    /\ \A e \in 1..Len(evals) : evals[e].what # "raised"
    /\ \E lag \in {0, MaxLag} :
          /\ lag > 0 => SlowCycles(Append(polls, clock + POLL_INTERVAL_SECONDS + lag))
                           <= MaxSlowCycles
          /\ clock' = clock + POLL_INTERVAL_SECONDS + lag
    /\ pc' = "process"
    /\ UNCHANGED <<file, FIRED_ONCE_TASK_IDS, cycle, polls, deliveries, evals,
                   gone, boots, storeVars, resolverVars>>

\* time.sleep(POLL_INTERVAL_SECONDS) when the next cycle starts lag seconds
\* late: the sleep, plus the time the cycle itself took.
SleepLag(lag) ==
    /\ pc = "sleep"
    /\ clock' = clock + POLL_INTERVAL_SECONDS + lag
    /\ pc' = "process"
    /\ UNCHANGED <<file, FIRED_ONCE_TASK_IDS, cycle, polls, deliveries, evals,
                   gone, boots, storeVars, resolverVars>>

\* time.sleep(POLL_INTERVAL_SECONDS); the next cycle starts that much,
\* plus the time the cycle itself took, after the previous one.
Sleep ==
    \E lag \in {0, MaxLag} :
        /\ lag > 0 => SlowCycles(Append(polls, clock + POLL_INTERVAL_SECONDS + lag))
                         <= MaxSlowCycles
        /\ SleepLag(lag)

SchedulerStart ==
    /\ pc = "process"
    /\ FIRED_ONCE_TASK_IDS = {}
    /\ cycle = 0
    /\ polls = <<>>
    /\ deliveries = <<>>
    /\ evals = <<>>
    /\ gone = {}
    /\ boots = <<0>>

MaxRestarts == 1

\* How long the process is down between its end and its next start: no
\* time, or the catch-up window and the look-ahead together.
Downtimes == {0, catch_up_window + due_lookahead}

\* Mutant of Restart: the registry outlives the process.
RestartKeepingRegistry ==
    /\ Len(boots) <= MaxRestarts
    /\ cycle < MaxCycles
    /\ \E down \in Downtimes : clock' = clock + down
    /\ pc' = "process"
    /\ evals' = <<>>
    /\ boots' = Append(boots, cycle)
    /\ UNCHANGED <<file, FIRED_ONCE_TASK_IDS, cycle, polls, deliveries, gone,
                   storeVars, resolverVars>>

\* The process ends (killed, or the machine goes down) and is started
\* again: the module is loaded anew, FIRED_ONCE_TASK_IDS = set(), and the
\* main loop starts with a cycle.  The file stays as it is.
Restart ==
    /\ Len(boots) <= MaxRestarts
    /\ cycle < MaxCycles
    /\ \E down \in Downtimes : clock' = clock + down
    /\ pc' = "process"
    /\ FIRED_ONCE_TASK_IDS' = {}
    /\ evals' = <<>>
    /\ boots' = Append(boots, cycle)
    /\ UNCHANGED <<file, cycle, polls, deliveries, gone, storeVars,
                   resolverVars>>

---------------------------------------------------------------------------
(* Task store: taskTools.py                                                *)

Callers == {"a1", "a2"}

\* Mutant of Uuid: the generator repeats the first id.
UuidRepeating(n) == <<"uuid", 1>>

\* str(uuid.uuid4()): the n-th id minted; the empty string is no id.
Uuid(n) == <<"uuid", n>>

EmptyId == <<>>

\* _load_tasks: as the scheduler's loader.
load_tasks(f, readable) ==
    IF readable /\ f.status = "list" THEN f.tasks ELSE <<>>

WriteOutcomes == {"ok", "open_fails", "dump_fails"}

\* Mutant of save_tasks: a file that already holds a list is left alone.
save_tasks_first_writer(f, tasks, outcome) ==
    CASE outcome = "ok"         -> IF f.status = "list" THEN f ELSE ListFile(tasks)
      [] outcome = "open_fails" -> f
      [] outcome = "dump_fails" -> FileOf("garbage", <<>>)

\* The file after _save_tasks(tasks).  An exception of open() or json.dump
\* is caught and printed inside _save_tasks, which returns normally: the
\* file is then as it was (open failed) or holds a truncated text.
save_tasks(f, tasks, outcome) ==
    CASE outcome = "ok"         -> ListFile(tasks)
      [] outcome = "open_fails" -> f
      [] outcome = "dump_fails" -> FileOf("garbage", <<>>)

\* Mutant of is_valid_vevent_basic: the DTSTART test is left out.
is_valid_vevent_basic_no_dtstart(vevent_str) ==
    /\ vevent_str.kind # "nonstring"
    /\ TextContains(vevent_str, "BEGIN:VEVENT")
    /\ TextContains(vevent_str, "END:VEVENT")

\* _is_valid_vevent_basic
is_valid_vevent_basic(vevent_str) ==
    /\ vevent_str.kind # "nonstring"
    /\ TextContains(vevent_str, "BEGIN:VEVENT")
    /\ TextContains(vevent_str, "END:VEVENT")
    /\ TextContains(vevent_str, "DTSTART")

\* not all([conversation_id, user_prompt, schedule_vevent])
MissingRequired(conversation_id, user_prompt, schedule_vevent) ==
    \/ conversation_id = ""
    \/ user_prompt = ""
    \/ schedule_vevent.kind = "empty"

\* [task for task in tasks if task.get("id") != task_id]
RECURSIVE tasks_after_deletion(_, _)
tasks_after_deletion(tasks, task_id) ==
    IF tasks = <<>>
    THEN <<>>
    ELSE IF Head(tasks).id # task_id
         THEN <<Head(tasks)>> \o tasks_after_deletion(Tail(tasks), task_id)
         ELSE tasks_after_deletion(Tail(tasks), task_id)

\* [task for task in tasks if task.get("conversation_id") == conversation_id]
RECURSIVE filtered_tasks(_, _)
filtered_tasks(tasks, conversation_id) ==
    IF tasks = <<>>
    THEN <<>>
    ELSE IF Head(tasks).conversation_id = conversation_id
         THEN <<Head(tasks)>> \o filtered_tasks(Tail(tasks), conversation_id)
         ELSE filtered_tasks(Tail(tasks), conversation_id)

Args(conversation_id, user_prompt, schedule_vevent, task_id) ==
    [conversation_id |-> conversation_id, user_prompt |-> user_prompt,
     schedule_vevent |-> schedule_vevent, task_id |-> task_id]

NoArgs == Args("", "", EmptyText, EmptyId)

Result(op, status, message, task_id, tasks) ==
    [op |-> op, status |-> status, message |-> message, task_id |-> task_id,
     tasks |-> tasks]

NoResult == Result("none", "none", "", EmptyId, <<>>)

Step(caller, op, phase, args, write) ==
    [caller |-> caller, op |-> op, phase |-> phase, args |-> args,
     write |-> write]

\* What a save by caller c overtook: when the step before it was the save
\* of the other caller, that save's operation, the id it created or deleted
\* and its write outcome.  Caller c had loaded before that save, the other
\* caller before this one: both loaded before either saved.
NoRace == [op |-> "none", task_id |-> EmptyId, write |-> "none"]

Overtaken(c) ==
    IF last.phase = "saved" /\ last.caller # c
    THEN [op |-> last.op,
          task_id |-> IF last.op = "create" THEN result.task_id
                      ELSE last.args.task_id,
          write |-> last.write]
    ELSE NoRace

MaxCreates == 2

\* create_scheduled_task up to the end of its load: the two validations,
\* each returning an error before the file is touched, then _load_tasks.
CreateBegin(c, conversation_id, user_prompt, schedule_vevent) ==
    LET args == Args(conversation_id, user_prompt, schedule_vevent, EmptyId)
    IN
    /\ cpc[c] = "idle"
    /\ prevFile' = file
    /\ race' = NoRace
    /\ IF MissingRequired(conversation_id, user_prompt, schedule_vevent)
       THEN /\ result' =
                   Result("create", "error", "missing_fields", EmptyId, <<>>)
            /\ last' = Step(c, "create", "rejected", args, "none")
            /\ UNCHANGED <<file, cpc, ctasks, cargs, nextId>>
       ELSE IF ~is_valid_vevent_basic(schedule_vevent)
       THEN /\ result' =
                   Result("create", "error", "invalid_vevent", EmptyId, <<>>)
            /\ last' = Step(c, "create", "rejected", args, "none")
            /\ UNCHANGED <<file, cpc, ctasks, cargs, nextId>>
       ELSE \E readable \in BOOLEAN :
            /\ ctasks' = [ctasks EXCEPT ![c] = load_tasks(file, readable)]
            /\ cargs' = [cargs EXCEPT ![c] = args]
            /\ cpc' = [cpc EXCEPT ![c] = "create_loaded"]
            /\ last' = Step(c, "create", "loaded", args, "none")
            /\ result' = NoResult
            /\ UNCHANGED <<file, nextId>>
    /\ UNCHANGED <<schedVars, resolverVars>>

\* create_scheduled_task from the minting of the id: append the new
\* record to the loaded list, _save_tasks, return success.
CreateSave(c) ==
    /\ cpc[c] = "create_loaded"
    /\ nextId < MaxCreates
    /\ \E outcome \in WriteOutcomes :
       LET new_task_id == Uuid(nextId + 1)
           new_task == Task(new_task_id, cargs[c].conversation_id,
                            cargs[c].user_prompt, cargs[c].schedule_vevent)
       IN /\ file' = save_tasks(file, Append(ctasks[c], new_task), outcome)
          /\ result' = Result("create", "success", "created", new_task_id,
                              <<new_task>>)
          /\ last' = Step(c, "create", "saved", cargs[c], outcome)
    /\ nextId' = nextId + 1
    /\ prevFile' = file
    /\ race' = Overtaken(c)
    /\ cpc' = [cpc EXCEPT ![c] = "idle"]
    /\ ctasks' = [ctasks EXCEPT ![c] = <<>>]
    /\ cargs' = [cargs EXCEPT ![c] = NoArgs]
    /\ UNCHANGED <<schedVars, resolverVars>>

\* delete_scheduled_task up to the decision: empty id, load, filter,
\* not-found when the filter removed nothing.
DeleteBegin(c, task_id) ==
    LET args == Args("", "", EmptyText, task_id)
    IN
    /\ cpc[c] = "idle"
    /\ prevFile' = file
    /\ race' = NoRace
    /\ IF task_id = EmptyId
       THEN /\ result' =
                   Result("delete", "error", "empty_id", task_id, <<>>)
            /\ last' = Step(c, "delete", "rejected", args, "none")
            /\ UNCHANGED <<file, cpc, ctasks, cargs, nextId>>
       ELSE \E readable \in BOOLEAN :
            LET tasks == load_tasks(file, readable)
                after == tasks_after_deletion(tasks, task_id)
            IN IF Len(after) = Len(tasks)
               THEN /\ result' =
                           Result("delete", "error", "not_found", task_id, <<>>)
                    /\ last' = Step(c, "delete", "not_found", args, "none")
                    /\ UNCHANGED <<file, cpc, ctasks, cargs, nextId>>
               ELSE /\ ctasks' = [ctasks EXCEPT ![c] = after]
                    /\ cargs' = [cargs EXCEPT ![c] = args]
                    /\ cpc' = [cpc EXCEPT ![c] = "delete_loaded"]
                    /\ last' = Step(c, "delete", "loaded", args, "none")
                    /\ result' = NoResult
                    /\ UNCHANGED <<file, nextId>>
    /\ UNCHANGED <<schedVars, resolverVars>>

\* delete_scheduled_task from its save: _save_tasks(tasks_after_deletion),
\* return success.
DeleteSave(c) ==
    /\ cpc[c] = "delete_loaded"
    /\ \E outcome \in WriteOutcomes :
          /\ file' = save_tasks(file, ctasks[c], outcome)
          /\ last' = Step(c, "delete", "saved", cargs[c], outcome)
    /\ result' = Result("delete", "success", "deleted", cargs[c].task_id, <<>>)
    /\ prevFile' = file
    /\ race' = Overtaken(c)
    /\ cpc' = [cpc EXCEPT ![c] = "idle"]
    /\ ctasks' = [ctasks EXCEPT ![c] = <<>>]
    /\ cargs' = [cargs EXCEPT ![c] = NoArgs]
    /\ UNCHANGED <<nextId, schedVars, resolverVars>>

\* list_scheduled_tasks(conversation_id); "" stands for no argument.
ListTasks(c, conversation_id) ==
    /\ cpc[c] = "idle"
    /\ \E readable \in BOOLEAN :
       LET tasks == load_tasks(file, readable)
       IN result' =
              Result("list", "success", "found", EmptyId,
                     IF conversation_id # ""
                     THEN filtered_tasks(tasks, conversation_id)
                     ELSE tasks)
    /\ last' = Step(c, "list", "listed",
                    Args(conversation_id, "", EmptyText, EmptyId), "none")
    /\ prevFile' = file
    /\ race' = NoRace
    /\ UNCHANGED <<file, cpc, ctasks, cargs, nextId, schedVars, resolverVars>>

StoreStart ==
    /\ cpc = [c \in Callers |-> "idle"]
    /\ ctasks = [c \in Callers |-> <<>>]
    /\ cargs = [c \in Callers |-> NoArgs]
    /\ result = NoResult
    /\ nextId = 0
    /\ last = Step("a1", "none", "none", NoArgs, "none")
    /\ prevFile = file
    /\ race = NoRace

---------------------------------------------------------------------------
(* Inputs of the poll loop: the files the scheduler may find, the instant  *)
(* it starts at.                                                           *)

\* The creation time of the scenarios: 2024-01-01T09:01:00Z
c0 == S0 + 60

OneOffEvent == VEvent(TRUE, TRUE, Some(UtcAt(c0)), None, <<>>, <<>>, "")

\* A one-off event whose SUMMARY line holds the word RRULE
OneOffSummaryEvent ==
    VEvent(TRUE, TRUE, Some(UtcAt(c0)), None, <<>>, <<>>, "RRULE")

\* Every minute, starting one minute before the creation time
MinutelyEvent ==
    VEvent(TRUE, TRUE, Some(UtcAt(c0 - 60)), Some(MinutelyRule), <<>>, <<>>, "")

PollEvents ==
    {OneOffEvent, OneOffSummaryEvent, MinutelyEvent, EmptyText, NonString}

PollRecords(id) ==
    {Task(id, "c1", "p1", v) : v \in PollEvents}
    \cup {Task(id, "", "p1", OneOffEvent), Task(id, "c1", "", OneOffEvent),
          Task(id, "", "p1", MinutelyEvent)}

PollFiles ==
    {ListFile(<<a>>) : a \in PollRecords(Uuid(1))}
    \cup {ListFile(<<a, b>>) :
             a \in PollRecords(Uuid(1)),
             b \in {Task(Uuid(2), "c1", "p1", OneOffEvent),
                    Task(Uuid(2), "c1", "p1", MinutelyEvent)}}
    \cup {MissingFile}

\* A start instant at c0 and one additional instant, no rule
RdateOnlyEvent ==
    VEvent(TRUE, TRUE, Some(UtcAt(c0)), None, <<UtcAt(c0 + 20)>>, <<>>, "")

\* Files of one record with a schedule of additional or excluded instants
\* or a bounded rule.
\* A start instant at c0, excluded; no rule, no additional instants
ExcludedOneOffEvent ==
    VEvent(TRUE, TRUE, Some(UtcAt(c0)), None, <<>>, <<UtcAt(c0)>>, "")

\* Every minute from one minute before c0, MaxCount times in all
CountedEvent ==
    VEvent(TRUE, TRUE, Some(UtcAt(c0 - 60)),
           Some(Rule("MINUTELY", 1, MaxCount, None)), <<>>, <<>>, "")

ScheduleEvents == {RdateOnlyEvent, ExcludedOneOffEvent, CountedEvent}

ScheduleFiles == {ListFile(<<Task(Uuid(1), "c1", "p1", v)>>) : v \in ScheduleEvents}

\* Files that hold no task: an empty file, a text that is not JSON, JSON
\* that is not a list, an empty list (no file at all is MissingFile)
NoTaskFiles ==
    {FileOf("empty", <<>>), FileOf("garbage", <<>>), FileOf("not_list", <<>>),
     ListFile(<<>>)}

\* Files of three records, the second with a schedule_vevent that is not
\* a string
AbandonFiles ==
    {ListFile(<<Task(Uuid(1), "c1", "p1", v), Task(Uuid(2), "c1", "p1", NonString),
                Task(Uuid(3), "c1", "p1", v)>>) :
        v \in {OneOffEvent, MinutelyEvent}}

StartClocks == {c0 - 15, c0 + 30, c0 + catch_up_window - 15}

\* Every 30 seconds from one minute before c0
HalfMinuteEvent ==
    VEvent(TRUE, TRUE, Some(UtcAt(c0 - 60)),
           Some(Rule("SECONDLY", 30, 0, None)), <<>>, <<>>, "")

\* Every 20 seconds from one minute before c0
TwentySecondEvent ==
    VEvent(TRUE, TRUE, Some(UtcAt(c0 - 60)),
           Some(Rule("SECONDLY", 20, 0, None)), <<>>, <<>>, "")

\* Files of one recurring task, for the loop with cycles that start late
SlowFiles ==
    {ListFile(<<Task(Uuid(1), "c1", "p1", v)>>) :
        v \in {MinutelyEvent, HalfMinuteEvent, TwentySecondEvent, CountedEvent}}

MaxPhase == 4

\* The start instants of that loop: every phase against the occurrences
SlowStartClocks == {c0 - 15 + k : k \in 0..MaxPhase}

\* The largest lag that keeps two polls grace period plus look-ahead apart
GraceLag ==
    grace_period_for_just_missed + due_lookahead - POLL_INTERVAL_SECONDS

\* How late a cycle of that loop starts
SlowLags == {0, MaxLag, GraceLag, GraceLag + MaxLag}

---------------------------------------------------------------------------
(* Inputs of the store callers                                             *)

NoBeginEvent == VEvent(FALSE, TRUE, Some(UtcAt(c0)), None, <<>>, <<>>, "")
NoEndEvent == VEvent(TRUE, FALSE, Some(UtcAt(c0)), None, <<>>, <<>>, "")
NoDtstartEvent == VEvent(TRUE, TRUE, None, Some(MinutelyRule), <<>>, <<>>, "")

CreateInputs ==
    {Args("c1", "p1", OneOffEvent, EmptyId),
     Args("c2", "p1", MinutelyEvent, EmptyId),
     Args("", "p1", OneOffEvent, EmptyId),
     Args("c1", "", OneOffEvent, EmptyId),
     Args("c1", "p1", EmptyText, EmptyId),
     Args("c1", "p1", NonString, EmptyId),
     Args("c1", "p1", GarbageText, EmptyId),
     Args("c1", "p1", NoBeginEvent, EmptyId),
     Args("c1", "p1", NoEndEvent, EmptyId),
     Args("c1", "p1", NoDtstartEvent, EmptyId)}

DeleteInputs == {EmptyId} \cup {Uuid(n) : n \in 0..MaxCreates}

ListInputs == {"", "c1"}

---------------------------------------------------------------------------
(* Specifications *)

\* The scheduler process over a file it finds at start.
Init ==
    /\ file \in PollFiles \cup ScheduleFiles \cup AbandonFiles \cup NoTaskFiles
    /\ clock \in StartClocks
    /\ SchedulerStart
    /\ StoreStart
    /\ ResolverIdle

Next == ProcessScheduledTasks \/ Sleep

Spec == Init /\ [][Next]_vars

\* Every five seconds, starting one minute before the creation time
FiveSecondEvent ==
    VEvent(TRUE, TRUE, Some(UtcAt(c0 - 60)),
           Some(Rule("SECONDLY", 5, 0, None)), <<>>, <<>>, "")

\* Files of one recurring record
RetryFiles ==
    {ListFile(<<Task(Uuid(1), "c1", "p1", v)>>) :
        v \in {MinutelyEvent, CountedEvent, FiveSecondEvent}}

\* The scheduler process over one recurring record, whose deliveries may
\* fail.
RetryInit ==
    /\ file \in RetryFiles
    /\ clock = c0 - 15
    /\ SchedulerStart
    /\ StoreStart
    /\ ResolverIdle

RetryNext == ProcessScheduledTasks \/ Sleep

SpecRetry == RetryInit /\ [][RetryNext]_vars

\* The scheduler process running on: a call of process_scheduled_tasks
\* returns or raises, time.sleep returns, and the while loop goes round.
LiveInit == Init /\ clock = c0 - 15

SpecLive ==
    LiveInit /\ [][Next]_vars /\ WF_vars(ProcessScheduledTasks) /\ WF_vars(Sleep)

\* The store's callers over a file that does not exist yet.
StoreInit ==
    /\ file = MissingFile
    /\ clock = c0
    /\ SchedulerStart
    /\ StoreStart
    /\ ResolverIdle

StoreNext ==
    \E c \in Callers :
        \/ \E a \in CreateInputs :
              CreateBegin(c, a.conversation_id, a.user_prompt, a.schedule_vevent)
        \/ CreateSave(c)
        \/ \E id \in DeleteInputs : DeleteBegin(c, id)
        \/ DeleteSave(c)
        \/ \E conv \in ListInputs : ListTasks(c, conv)

SpecStore == StoreInit /\ [][StoreNext]_vars

MaxSystemCycles == 3
MaxSystemCreates == 2

\* The scheduler process and the store's callers side by side, in runs
\* where every write of the file and every delivery succeeds and the loop
\* wakes on time: the callers create recurring tasks and delete the first.
SystemNext ==
    \/ /\ ProcessScheduledTasks
       /\ cycle < MaxSystemCycles
       /\ \A d \in 1..Len(deliveries') : deliveries'[d].ok
    \/ Sleep /\ clock' = clock + POLL_INTERVAL_SECONDS
    \/ \E c \in Callers :
          \/ CreateBegin(c, "c1", "p1", MinutelyEvent)
          \/ CreateSave(c) /\ nextId < MaxSystemCreates /\ last'.write = "ok"
          \/ DeleteBegin(c, Uuid(1))
          \/ DeleteSave(c) /\ last'.write = "ok"

SpecSystem == StoreInit /\ [][SystemNext]_vars

\* The scheduler process, ended and started again, over a file of one-off
\* tasks.
RestartFiles ==
    {ListFile(<<Task(Uuid(1), "c1", "p1", v)>>) :
        v \in {OneOffEvent, OneOffSummaryEvent}}
    \cup {ListFile(<<a, Task(Uuid(2), "c1", "p1", OneOffEvent)>>) :
             a \in {Task(Uuid(1), "c1", "p1", OneOffEvent),
                    Task(Uuid(1), "c1", "p1", MinutelyEvent),
                    Task(Uuid(1), "c1", "p1", NonString)}}

MaxRestartCycles == 3

RestartInit ==
    /\ file \in RestartFiles
    /\ clock = c0 - due_lookahead
    /\ SchedulerStart
    /\ StoreStart
    /\ ResolverIdle

\* The loop wakes on time here, and runs MaxRestartCycles cycles in all.
RestartNext ==
    \/ ProcessScheduledTasks /\ cycle < MaxRestartCycles
    \/ SleepLag(0)
    \/ Restart /\ cycle < MaxRestartCycles

SpecRestart == RestartInit /\ [][RestartNext]_vars

\* The scheduler process with cycles that start late, in runs where every
\* cycle reads the file and evaluates its records and every delivery
\* succeeds.
SlowInit ==
    /\ file \in SlowFiles
    /\ clock \in SlowStartClocks
    /\ SchedulerStart
    /\ StoreStart
    /\ ResolverIdle

SlowNext ==
    \/ /\ ProcessScheduledTasks
       /\ Len(evals') = Len(file.tasks)
       /\ \A d \in 1..Len(deliveries') : deliveries'[d].ok
    \/ \E lag \in SlowLags : SleepLag(lag)

SpecSlow == SlowInit /\ [][SlowNext]_vars

\* The resolver applied to one fragment at one instant.
ResolverSpecInit ==
    /\ ResolverInit
    /\ file = MissingFile
    /\ clock = c0
    /\ SchedulerStart
    /\ StoreStart

ResolverNext == ResolverCall

SpecResolver == ResolverSpecInit /\ [][ResolverNext]_vars

\* The delivery client applied to one outcome of the request.
DeliverySpecInit ==
    /\ DeliveryInit
    /\ file = MissingFile
    /\ clock = c0
    /\ SchedulerStart
    /\ StoreStart

DeliveryNext == DeliveryCall

SpecDelivery == DeliverySpecInit /\ [][DeliveryNext]_vars

---------------------------------------------------------------------------
(* Claims about the resolver (checked under SpecResolver)                  *)

Parsed(v) == ParsesAsEvent(v) /\ v.dtstart # None

StartInstant(v) == make_dt_aware(Val(v.dtstart))

\* No recurrence rule, no additional instants, no exclusions
PlainOneOff(v) ==
    Parsed(v) /\ v.rrule = None /\ v.rdates = <<>> /\ v.exdates = <<>>

\* A recurrence rule, no additional instants, no exclusions
PlainRecurring(v) ==
    /\ Parsed(v) /\ v.rrule # None /\ v.rdates = <<>> /\ v.exdates = <<>>
    /\ ValidRule(Val(v.rrule))

\* C4: for a recurring schedule, no instant of its excluded set X is ever
\* returned by next_occurrence, whatever now is and however many instants
\* X holds.
C4_ExcludedNeverReturned ==
    (rout.done /\ Parsed(rin.vevent) /\ rin.vevent.rrule # None) =>
        \A i \in 1..Len(rin.vevent.exdates) :
            rout.value # Some(make_dt_aware(rin.vevent.exdates[i]))

\* C5: for a schedule with no rule, no additional instants and no
\* exclusions and start instant S, next_occurrence(now) is S when
\* S >= now - 5 min and None when now - 5 min > S.
C5_OneOffCatchUpWindow ==
    (rout.done /\ PlainOneOff(rin.vevent)) =>
        LET S == StartInstant(rin.vevent)
        IN /\ S >= rin.now - 5 * 60 => rout.value = Some(S)
           /\ rin.now - 5 * 60 > S => rout.value = None

\* C5 witness: a one-off start instant exactly 5 minutes before now is
\* returned.
C5_Witness ==
    /\ rout.done
    /\ PlainOneOff(rin.vevent)
    /\ StartInstant(rin.vevent) = rin.now - 5 * 60
    /\ rout.value = Some(StartInstant(rin.vevent))

\* C6: for a schedule with a rule seeded at S and no additional or
\* excluded instants, next_occurrence(now) is the first occurrence of the
\* rule at or after now - 20 s (one exactly at now - 20 s included), and
\* None when the rule has no occurrence there; the daily rule starting
\* 2024-01-01T09:00:00Z gives 2024-01-03T09:00:00Z at 08:00:00Z, 09:00:00Z
\* and 09:00:05Z of 2024-01-03.
C6_RuleFirstAtOrAfterGrace ==
    (rout.done /\ PlainRecurring(rin.vevent)) =>
        LET S    == StartInstant(rin.vevent)
            rule == Val(rin.vevent.rrule)
            P    == Period(rule)
            from == rin.now - 2 * 10
        IN /\ rout.value # None =>
                LET r == Val(rout.value)
                    k == (r - S) \div P
                IN /\ r >= S
                   /\ r = S + k * P
                   /\ InRule(rule, S, k)
                   /\ r >= from
                   /\ k > 0 => r - P < from
           /\ rout.value = None =>
                /\ rule.count # 0 \/ rule.until # None
                /\ \A k \in 0..MaxK :
                       InRule(rule, S, k) => Occurrence(rule, S, k) < from
           /\ ( /\ rin.vevent.dtstart = Some(UtcAt(9 * 3600))
                /\ rule = DailyRule
                /\ rin.now \in {2 * 86400 + 8 * 3600, 2 * 86400 + 9 * 3600,
                                 2 * 86400 + 9 * 3600 + 5} )
              => rout.value = Some(2 * 86400 + 9 * 3600)

\* C6 witness: an occurrence exactly at now - 20 s is returned.
C6_Witness ==
    /\ rout.done
    /\ PlainRecurring(rin.vevent)
    /\ rout.value = Some(rin.now - 2 * 10)

---------------------------------------------------------------------------
(* Claims about the scanner and the poll loop (checked under Spec)         *)

\* The record a log entry is about: the file does not change under Spec.
TaskAt(i) == file.tasks[i]

DeliveryIdx == 1..Len(deliveries)

\* The schedule has no recurrence rule and no additional instants.
OneOffSchedule(v) == v.kind = "vevent" /\ v.rrule = None /\ v.rdates = <<>>

\* Consecutive cycles so far started exactly one poll interval apart.
EvenlySpaced ==
    \A n \in 1..(Len(polls) - 1) : polls[n + 1] - polls[n] = 10

\* C1: a one-off task (no rule, no additional instants) whose delivery
\* returned success in some cycle is not passed to the delivery client in
\* any later cycle.
C1_OneOffNeverDeliveredAgain ==
    \A i, j \in DeliveryIdx :
        ( /\ deliveries[i].id = deliveries[j].id
          /\ OneOffSchedule(TaskAt(deliveries[i].index).schedule_vevent)
          /\ deliveries[i].ok )
        => deliveries[j].cycle <= deliveries[i].cycle

\* C2: with cycles one poll interval apart and every delivery succeeding,
\* no two cycles deliver a recurring task for the same occurrence instant.
C2_RecurringOncePerOccurrence ==
    (EvenlySpaced /\ \A i \in DeliveryIdx : deliveries[i].ok) =>
        \A i, j \in DeliveryIdx :
            ( /\ deliveries[i].id = deliveries[j].id
              /\ TaskAt(deliveries[i].index).schedule_vevent.rrule # None
              /\ deliveries[i].occ = deliveries[j].occ )
            => deliveries[i].cycle = deliveries[j].cycle

\* The scenario of C3: the file holds one task firing every minute from
\* one minute before the creation time c0, and one scan ran at c0 + 30 s.
C3_Scenario ==
    /\ file = ListFile(<<Task(Uuid(1), "c1", "p1", MinutelyEvent)>>)
    /\ polls = <<c0 + 30>>
    /\ evals # <<>>

\* C3 as claimed: that scan makes exactly one delivery attempt.
C3_OneEmission == C3_Scenario => Len(deliveries) = 1

\* C3, amended: that scan makes no delivery attempt; the resolver returns
\* the occurrence at c0 + 60 s, which is not due yet (the occurrence at c0
\* is more than 20 s old).
C3_NoEmission ==
    C3_Scenario =>
        /\ deliveries = <<>>
        /\ evals = <<[index |-> 1, id |-> Uuid(1), what |-> "not_due",
                      occ |-> Some(c0 + 60)]>>

C3_Witness == C3_Scenario /\ pc = "sleep"

C8_MissingFieldsNeverDelivered ==
    /\ \A d \in DeliveryIdx :
          /\ TaskAt(deliveries[d].index).conversation_id # ""
          /\ TaskAt(deliveries[d].index).user_prompt # ""
    /\ \A i \in 1..Len(file.tasks) :
          (TaskAt(i).conversation_id = "" \/ TaskAt(i).user_prompt = "")
          => TaskAt(i).id \notin FIRED_ONCE_TASK_IDS

\* C8 witness: a one-off task without user_prompt was due in a scan in which
\* another task was delivered and entered the registry.
C8_Witness ==
    /\ \E e \in 1..Len(evals) :
          /\ evals[e].what = "missing_fields"
          /\ TaskAt(evals[e].index).user_prompt = ""
          /\ OneOffSchedule(TaskAt(evals[e].index).schedule_vevent)
    /\ FIRED_ONCE_TASK_IDS # {}

---------------------------------------------------------------------------
(* Claims about the task store (checked under SpecStore)                   *)

\* The arguments create must reject: an empty conversation_id, user_prompt
\* or fragment, or a fragment without one of the three markers.
InvalidCreateArgs(a) ==
    \/ a.conversation_id = ""
    \/ a.user_prompt = ""
    \/ a.schedule_vevent.kind = "empty"
    \/ ~TextContains(a.schedule_vevent, "BEGIN:VEVENT")
    \/ ~TextContains(a.schedule_vevent, "END:VEVENT")
    \/ ~TextContains(a.schedule_vevent, "DTSTART")

InvalidRecord(t) ==
    InvalidCreateArgs(Args(t.conversation_id, t.user_prompt,
                           t.schedule_vevent, EmptyId))

\* C9: a create call with an empty conversation_id, user_prompt or
\* fragment, or a fragment lacking BEGIN:VEVENT, END:VEVENT or DTSTART,
\* returns an error and leaves the file as it was; the file never holds
\* such a record and no list call returns one.
C9_InvalidCreateRejected ==
    /\ (last.op = "create" /\ InvalidCreateArgs(last.args)) =>
          /\ last.phase = "rejected"
          /\ result.op = "create"
          /\ result.status = "error"
          /\ file = prevFile
    /\ \A i \in 1..Len(file.tasks) : ~InvalidRecord(file.tasks[i])
    /\ last.op = "list" =>
          \A i \in 1..Len(result.tasks) : ~InvalidRecord(result.tasks[i])

\* C9 witness: a create whose fragment lacks only DTSTART was rejected while
\* the file held a record.
C9_Witness ==
    /\ last.op = "create"
    /\ last.phase = "rejected"
    /\ last.args.schedule_vevent = NoDtstartEvent
    /\ file.status = "list"
    /\ file.tasks # <<>>

\* C10: delete(id) of an id no stored record holds returns not-found and
\* writes nothing; delete(id) of a stored id returns success and the file
\* then holds a list without any record of that id.
C10_DeleteContract ==
    /\ (last.op = "delete" /\ last.phase = "not_found") =>
          result.status = "error" /\ file = prevFile
    /\ (last.op = "delete" /\ last.phase = "saved"
            /\ result.status = "success") =>
          /\ file.status = "list"
          /\ \A i \in 1..Len(file.tasks) :
                file.tasks[i].id # last.args.task_id

\* The last step was the load of a create that found the stored list
\* unreadable: the file holds records and the caller was handed none.
CreateReadFailed ==
    /\ last.op = "create"
    /\ last.phase = "loaded"
    /\ file.status = "list"
    /\ file.tasks # <<>>
    /\ ctasks[last.caller] = <<>>

\* The last step was the save of a create or delete whose write failed.
WriteFailed ==
    /\ last.op \in {"create", "delete"}
    /\ last.phase = "saved"
    /\ last.write # "ok"

\* C11: a create or delete during which the file cannot be read or cannot
\* be written returns an error to its caller and leaves the file as it was.
C11_StoreFailureReported ==
    /\ CreateReadFailed =>
          /\ result.status = "error"
          /\ cpc[last.caller] = "idle"
    /\ WriteFailed =>
          /\ result.status = "error"
          /\ file = prevFile

\* The records a caller can write back: those in the file and those a
\* pending call has loaded.
KnownRecords ==
    {file.tasks[i] : i \in 1..Len(file.tasks)}
    \cup UNION {{ctasks[c][i] : i \in 1..Len(ctasks[c])} : c \in Callers}

\* No two positions of the stored list hold the same id.
UniqueIds(tasks) ==
    \A i, j \in 1..Len(tasks) : tasks[i].id = tasks[j].id => i = j

\* C12: at every moment the records of the file have pairwise distinct ids,
\* and every step leaves each record it writes as it was known before (same
\* id, same fields) or writes a record whose id no known record holds.
C12_UniqueStableIds ==
    /\ UniqueIds(file.tasks)
    /\ [][/\ UniqueIds(file'.tasks)
          /\ \A i \in 1..Len(file'.tasks) :
                \/ file'.tasks[i] \in KnownRecords
                \/ \A r \in KnownRecords : r.id # file'.tasks[i].id]_vars

\* C12 witness: a create saved its list, of two records or more, while the
\* other caller was between the load and the save of a delete.
C12_Witness ==
    /\ last.op = "create"
    /\ last.phase = "saved"
    /\ last.write = "ok"
    /\ Len(file.tasks) >= 2
    /\ \E c \in Callers : cpc[c] = "delete_loaded"


\* The last step was a save that wrote the file, right after a save of the
\* other caller that wrote it too: both had loaded before either saved.
Raced ==
    /\ last.phase = "saved"
    /\ last.write = "ok"
    /\ race.op # "none"
    /\ race.write = "ok"

HoldsId(tasks, id) == \E i \in 1..Len(tasks) : tasks[i].id = id

\* The list the caller of a pending create or delete is about to write.
ListToWrite(c, new_task) ==
    IF cpc[c] = "create_loaded" THEN Append(ctasks[c], new_task) ELSE ctasks[c]

\* The step is a save that writes the file: it writes the list its caller
\* loaded, with the caller's own change and nothing else.
LaterSaveAlone ==
    (last'.phase = "saved" /\ last'.write = "ok" /\ last' # last)
        => file' = ListFile(ListToWrite(last'.caller, result'.tasks[1]))

C19_ListReturnsStored ==
    last.op = "list" =>
        /\ file = prevFile
        /\ result.status = "success"
        /\ last.args.conversation_id = "" => result.tasks = file.tasks
        /\ last.args.conversation_id # "" =>
              /\ \A i \in 1..Len(result.tasks) :
                    result.tasks[i].conversation_id = last.args.conversation_id
              /\ {result.tasks[i] : i \in 1..Len(result.tasks)} =
                    {file.tasks[i] : i \in {j \in 1..Len(file.tasks) :
                        file.tasks[j].conversation_id = last.args.conversation_id}}
              /\ Len(result.tasks) =
                    Cardinality({j \in 1..Len(file.tasks) :
                        file.tasks[j].conversation_id = last.args.conversation_id})

---------------------------------------------------------------------------
(* Claims about failed deliveries (checked under Spec)                     *)

\* The deliveries of the i-th record made in cycles before the last one
EarlierDeliveries(i) ==
    {d \in DeliveryIdx : deliveries[d].index = i /\ deliveries[d].cycle < cycle}

\* The i-th record is a one-off task whose deliveries in earlier cycles, at
\* least one, all returned false.
FailedSoFar(i) ==
    /\ OneOffSchedule(TaskAt(i).schedule_vevent)
    /\ EarlierDeliveries(i) # {}
    /\ \A d \in EarlierDeliveries(i) : ~deliveries[d].ok

\* C17: a one-off task whose deliveries all returned false is not in the
\* fired-once registry; a cycle that evaluates it after a failed delivery
\* attempts it again while S >= now - W, and finds no occurrence once
\* now - W > S; no delivery of a one-off task is made at a now with
\* now - W > S.
C17_FailedOneOffRetried ==
    /\ \A i \in 1..Len(file.tasks) :
          ( /\ OneOffSchedule(TaskAt(i).schedule_vevent)
            /\ \A d \in DeliveryIdx : deliveries[d].index = i => ~deliveries[d].ok )
          => TaskAt(i).id \notin FIRED_ONCE_TASK_IDS
    /\ \A e \in 1..Len(evals) :
          FailedSoFar(evals[e].index) =>
             LET S == StartInstant(TaskAt(evals[e].index).schedule_vevent)
                 now == polls[Len(polls)]
                 attempted == \E d \in DeliveryIdx :
                                 /\ deliveries[d].index = evals[e].index
                                 /\ deliveries[d].cycle = cycle
             IN IF S >= now - catch_up_window
                THEN evals[e].what = "delivered" /\ attempted
                ELSE evals[e].what = "no_occurrence" /\ ~attempted
    /\ \A d \in DeliveryIdx :
          OneOffSchedule(TaskAt(deliveries[d].index).schedule_vevent) =>
             StartInstant(TaskAt(deliveries[d].index).schedule_vevent)
                >= deliveries[d].now - catch_up_window

\* C17 witness: a one-off task was delivered in two cycles, both deliveries
\* returned false, and a later cycle found it expired.
C17_Witness ==
    \E e \in 1..Len(evals) :
        /\ FailedSoFar(evals[e].index)
        /\ Cardinality(EarlierDeliveries(evals[e].index)) = 2
        /\ evals[e].what = "no_occurrence"
        /\ TaskAt(evals[e].index).id \notin FIRED_ONCE_TASK_IDS

---------------------------------------------------------------------------
(* Claims about fragments that do not resolve (checked under SpecResolver) *)

\* The fragment fails parsing or calendar computation: no calendar text,
\* a block without BEGIN or END, no DTSTART, rule parameters the rule
\* constructor rejects, additional instants without a rule.
FailsToResolve(v) ==
    \/ v.kind # "vevent"
    \/ ~v.begin
    \/ ~v.end
    \/ v.dtstart = None
    \/ v.rrule # None /\ ~ValidRule(Val(v.rrule))
    \/ v.rrule = None /\ v.rdates # <<>>

\* A scan at now_utc of a file holding one complete record with fragment v,
\* the endpoint answering 200.
ScanOfOne(v, now_utc) ==
    ScanFrom(<<Task(Uuid(1), "c1", "p1", v)>>, 1, now_utc, 1, <<Answer(200)>>,
             [fired |-> {}, deliveries |-> <<>>, evals |-> <<>>,
              raised |-> FALSE])

\* C18: for a fragment that fails parsing or calendar computation the
\* resolver returns None, no exception leaving it, and a scan of a record
\* holding that fragment skips the record without delivering it.
C18_UnresolvableGivesNone ==
    (rout.done /\ FailsToResolve(rin.vevent)) =>
        /\ rout.value = None
        /\ ~ScanOfOne(rin.vevent, rin.now).raised
        /\ ScanOfOne(rin.vevent, rin.now).deliveries = <<>>
        /\ ScanOfOne(rin.vevent, rin.now).evals =
              <<[index |-> 1, id |-> Uuid(1), what |-> "no_occurrence",
                 occ |-> None]>>

\* C18 witness: the resolver was called, at the start instant of the rule,
\* on a fragment whose rule parameters are rejected.
C18_Witness ==
    /\ rout.done
    /\ rin.vevent.rrule = Some(InvalidRule)
    /\ rin.now = S0
    /\ rout.value = None

---------------------------------------------------------------------------
(* Claims about the running poll loop (checked under SpecLive)             *)

\* The last cycle ended by an exception that reached the main loop.
CycleRaised == \E e \in 1..Len(evals) : evals[e].what = "raised"

\* C15: whatever a cycle did (raised on a malformed record, found the file
\* unreadable, had its deliveries fail), the loop sleeps and starts the
\* next cycle: every cycle up to the last one modelled is followed by
\* another.
C15_LoopKeepsCycling ==
    \A n \in 0..(MaxCycles - 1) : (cycle = n) ~> (cycle = n + 1)

\* C15 witness: the last cycle modelled was started, and raised, after a
\* cycle that raised.
C15_Witness ==
    /\ cycle = MaxCycles
    /\ CycleRaised
    /\ file.tasks[1].schedule_vevent = NonString

---------------------------------------------------------------------------
(* Claims about the delivery client (checked under SpecDelivery)           *)

\* C16: deliver returns true exactly when the endpoint answered with a
\* status from 200 to 299, and false for every other status and for a
\* request that failed or timed out.
C16_TrueExactlyOn2xx ==
    rout.done =>
        (rout.value <=> ( /\ rin.response.kind = "answer"
                          /\ rin.response.status_code \in 200..299 ))

---------------------------------------------------------------------------
(* Claims about the poll loop beside the store (checked under SpecSystem)  *)

\* C14: a task whose delete returned success is evaluated by the scanner in
\* at most one poll cycle after the delete returned.
C14_DeletedSeenAtMostOnce == \A g \in gone : g.seen <= 1

---------------------------------------------------------------------------
(* Claims about the one-off classification (checked under Spec)           *)

\* The fragment has no recurrence-rule property and no additional-instant
\* property.
NoRuleNoInstants(v) == v.rrule = None /\ v.rdates = <<>>

\* C21: the scanner takes a task for one-off exactly when its fragment has
\* neither a recurrence-rule property nor an additional-instant property,
\* whatever the rest of the text holds (a SUMMARY line with the letters
\* RRULE, say): a task delivered with success enters the fired-once
\* registry exactly in that case.
C21_ClassifiedByProperties ==
    \A d \in DeliveryIdx :
        deliveries[d].ok =>
            ( deliveries[d].id \in FIRED_ONCE_TASK_IDS
              <=> NoRuleNoInstants(TaskAt(deliveries[d].index).schedule_vevent) )

---------------------------------------------------------------------------
(* Claims about schedules with additional instants (checked under Spec)    *)

\* Additional instants and no recurrence rule
InstantsNoRule(v) == v.kind = "vevent" /\ v.rrule = None /\ v.rdates # <<>>

---------------------------------------------------------------------------
(* Claims about additional and excluded instants in the resolver (checked  *)
(* under SpecResolver)                                                     *)

\* The additional instants of a fragment, in UTC
AdditionalInstants(v) ==
    {make_dt_aware(v.rdates[i]) : i \in 1..Len(v.rdates)}

Earliest(S) == CHOOSE x \in S : \A y \in S : x <= y

EarliestOrNone(S) == IF S = {} THEN None ELSE Some(Earliest(S))

\* The instants C23 chooses among: with a rule, the rule's first occurrence
\* at or after now - 20 s and the additional instants from now - 20 s on;
\* without a rule, the start instant and the additional instants, each
\* when not older than 5 min.
C23_Candidates(v, now) ==
    IF v.rrule # None
    THEN RuleAfter(Val(v.rrule), StartInstant(v), now - 2 * 10, TRUE)
         \cup {a \in AdditionalInstants(v) : a >= now - 2 * 10}
    ELSE {a \in {StartInstant(v)} \cup AdditionalInstants(v) : a >= now - 5 * 60}

\* C23: for a schedule with additional instants (and no exclusions) the
\* resolver returns the earliest among the rule's candidate and the
\* additional instants >= now - 20 s when there is a rule, and the earliest
\* among the start instant and the additional instants within the catch-up
\* window (>= now - 5 min) when there is none.
C23_InstantsPreempt ==
    ( /\ rout.done
      /\ Parsed(rin.vevent)
      /\ rin.vevent.rdates # <<>>
      /\ rin.vevent.exdates = <<>> )
    => rout.value = EarliestOrNone(C23_Candidates(rin.vevent, rin.now))

\* The excluded instants of a fragment, in UTC
ExcludedInstants(v) ==
    {make_dt_aware(v.exdates[i]) : i \in 1..Len(v.exdates)}

\* The fragment has a rule, and its candidate at now (the earliest among
\* the rule's first occurrence from now - 20 s on and the additional
\* instants from then on) exists and is excluded.
CandidateExcluded(v, now) ==
    /\ Parsed(v)
    /\ v.rrule # None
    /\ ValidRule(Val(v.rrule))
    /\ C23_Candidates(v, now) # {}
    /\ Earliest(C23_Candidates(v, now)) \in ExcludedInstants(v)

\* C24: when the candidate D of a recurring schedule is excluded, the
\* resolver returns the earliest among the rule's first occurrence
\* strictly after D and the additional instants strictly between D and
\* that occurrence, and None when the rule has no occurrence after D.
C24_AfterExclusion ==
    (rout.done /\ CandidateExcluded(rin.vevent, rin.now)) =>
        LET v == rin.vevent
            D == Earliest(C23_Candidates(v, rin.now))
            next_after == RuleAfter(Val(v.rrule), StartInstant(v), D, FALSE)
        IN IF next_after = None
           THEN rout.value = None
           ELSE rout.value =
                  Some(Earliest(next_after \cup
                                {a \in AdditionalInstants(v) :
                                    a > D /\ a < Val(next_after)}))

\* C24 witness: the candidate is excluded and an additional instant before
\* the rule's next occurrence is returned.
C24_Witness ==
    /\ rout.done
    /\ CandidateExcluded(rin.vevent, rin.now)
    /\ rout.value # None
    /\ Val(rout.value) \in AdditionalInstants(rin.vevent)
    /\ rout.value #
          RuleAfter(Val(rin.vevent.rrule), StartInstant(rin.vevent),
                    Earliest(C23_Candidates(rin.vevent, rin.now)), FALSE)

\* The fragment has no rule and its candidate is excluded: the start
\* instant when it is the only instant, else the earliest among the start
\* instant and the additional instants within the catch-up window at now.
SoleCandidateExcluded(v, now) ==
    /\ Parsed(v)
    /\ v.rrule = None
    /\ IF v.rdates = <<>>
       THEN StartInstant(v) \in ExcludedInstants(v)
       ELSE /\ C23_Candidates(v, now) # {}
            /\ Earliest(C23_Candidates(v, now)) \in ExcludedInstants(v)

\* C25: for a schedule without a recurrence rule whose sole candidate (the
\* start instant, or an additional instant) is a member of the excluded
\* set, the resolver returns None at every now.
C25_ExcludedOneOffNone ==
    (rout.done /\ SoleCandidateExcluded(rin.vevent, rin.now)) =>
        rout.value = None

\* C25 witness: the excluded start instant of a schedule with no rule and
\* no additional instants is inside the catch-up window, and None is
\* returned.
C25_Witness ==
    /\ rout.done
    /\ SoleCandidateExcluded(rin.vevent, rin.now)
    /\ rin.vevent.rdates = <<>>
    /\ StartInstant(rin.vevent) >= rin.now - 5 * 60
    /\ StartInstant(rin.vevent) <= rin.now
    /\ rout.value = None

---------------------------------------------------------------------------
(* Claims about the fired-once registry and the file (checked under Spec)  *)

\* Every id in the registry is the id of a stored task that has no rule
\* and no additional instants, that the scanner takes for one-off, that has
\* its conversation_id and user_prompt, and for which a delivery returned
\* success.
RegistrySound ==
    \A id \in FIRED_ONCE_TASK_IDS :
        /\ \E i \in 1..Len(file.tasks) : TaskAt(i).id = id
        /\ \A i \in 1..Len(file.tasks) :
              TaskAt(i).id = id =>
                 /\ NoRuleNoInstants(TaskAt(i).schedule_vevent)
                 /\ is_one_off(TaskAt(i).schedule_vevent)
                 /\ TaskAt(i).conversation_id # ""
                 /\ TaskAt(i).user_prompt # ""
        /\ \E d \in DeliveryIdx : deliveries[d].id = id /\ deliveries[d].ok

\* C26: the fired-once registry holds only ids of tasks classified one-off
\* for which a delivery returned success in this process (no recurring
\* task, no task with additional instants, no task whose deliveries all
\* failed, no task skipped for missing fields), and no id is ever removed
\* from it.
C26_RegistrySoundAndGrowing ==
    /\ RegistrySound
    /\ [][ /\ RegistrySound'
           /\ FIRED_ONCE_TASK_IDS \subseteq FIRED_ONCE_TASK_IDS' ]_vars

\* C26 witness: after two cycles or more the registry holds a one-off task
\* while a recurring task delivered with success, stored beside it, is not
\* in it.
C26_Witness ==
    /\ cycle >= 2
    /\ FIRED_ONCE_TASK_IDS # {}
    /\ \E d \in DeliveryIdx :
          /\ deliveries[d].ok
          /\ TaskAt(deliveries[d].index).schedule_vevent.rrule # None
          /\ deliveries[d].id \notin FIRED_ONCE_TASK_IDS
    /\ \E d \in DeliveryIdx :
          /\ ~deliveries[d].ok
          /\ deliveries[d].id \in FIRED_ONCE_TASK_IDS

\* C27: a poll cycle never writes the persisted collection: after any
\* cycle, whatever its tasks were (due, delivered, failed, expired or
\* exhausted), the file is what it was before the cycle.
C27_CycleLeavesFile == [][cycle' # cycle => file' = file]_vars

\* C27 witness: a cycle has left in the file a one-off task that is in the
\* registry, beside a one-off task that expired undelivered.
C27_Witness ==
    /\ pc = "sleep"
    /\ \E i \in 1..Len(file.tasks) : TaskAt(i).id \in FIRED_ONCE_TASK_IDS
    /\ \E e \in 1..Len(evals) :
          /\ evals[e].what = "no_occurrence"
          /\ PlainOneOff(TaskAt(evals[e].index).schedule_vevent)

---------------------------------------------------------------------------
(* Claims about what the running poll loop delivers (checked under         *)
(* SpecLive)                                                               *)

\* The i-th stored task is a valid one-off task (a fragment that parses,
\* with a start instant, no rule and no additional instants) of which a
\* delivery attempt, made in a cycle at now with S - 5 s <= now <= S + 5 min,
\* succeeded.
OneOffDeliveredInWindow(i) ==
    /\ i <= Len(file.tasks)
    /\ Parsed(TaskAt(i).schedule_vevent)
    /\ OneOffSchedule(TaskAt(i).schedule_vevent)
    /\ \E d \in DeliveryIdx :
          /\ deliveries[d].index = i
          /\ deliveries[d].ok
          /\ deliveries[d].now >= StartInstant(TaskAt(i).schedule_vevent) - 5
          /\ deliveries[d].now <= StartInstant(TaskAt(i).schedule_vevent) + 5 * 60

\* The i-th stored task is in the fired state after exactly one successful
\* delivery.
FiredAfterOneDelivery(i) ==
    /\ i <= Len(file.tasks)
    /\ TaskAt(i).id \in FIRED_ONCE_TASK_IDS
    /\ Cardinality({d \in DeliveryIdx :
                       deliveries[d].index = i /\ deliveries[d].ok}) = 1

\* C28: with poll cycles one poll interval apart, a valid one-off task of
\* which a delivery attempt made at a poll with S - 5 s <= now <= S + 5 min
\* succeeded comes to the fired state (its id in the registry) after
\* exactly one successful delivery.  The registry is written in the cycle
\* of a successful delivery only, so the task is in that state from the
\* cycle of that delivery on, or never.
C28_OneOffFiredAfterOneDelivery ==
    \A i \in 1..Len(file.tasks) :
        (EvenlySpaced /\ OneOffDeliveredInWindow(i)) => FiredAfterOneDelivery(i)

---------------------------------------------------------------------------
(* Claims about cycles that start late (checked under SpecSlow)            *)

\* Consecutive cycles so far started at most 25 s apart.
PollsWithinGrace ==
    \A n \in 1..(Len(polls) - 1) : polls[n + 1] - polls[n] <= 2 * 10 + 5

\* The i-th stored task is recurring, with occurrences more than 25 s
\* apart, and has its conversation_id and user_prompt.
SparseRecurring(i) ==
    /\ PlainRecurring(TaskAt(i).schedule_vevent)
    /\ Period(Val(TaskAt(i).schedule_vevent.rrule)) > 2 * 10 + 5
    /\ TaskAt(i).conversation_id # ""
    /\ TaskAt(i).user_prompt # ""

\* The occurrences of the i-th task that fall after the first poll and
\* are due (<= now + 5 s) at the last poll.
OccurrencesDueSoFar(i) ==
    LET v == TaskAt(i).schedule_vevent
        S == StartInstant(v)
        last_poll == polls[Len(polls)]
    IN {Occurrence(Val(v.rrule), S, k) :
           k \in {n \in 0..((last_poll + 5 - S) \div Period(Val(v.rrule))) :
                     /\ InRule(Val(v.rrule), S, n)
                     /\ Occurrence(Val(v.rrule), S, n) > polls[1]}}

\* C29: for a recurring task whose occurrences are more than 25 s apart,
\* with consecutive polls at most 25 s apart and deliveries that succeed,
\* every occurrence after the first poll is delivered in some cycle: it
\* has been delivered once a poll at or after 5 s before it has run.
C29_NoOccurrenceDropped ==
    \A i \in 1..Len(file.tasks) :
        ( /\ polls # <<>>
          /\ SparseRecurring(i)
          /\ PollsWithinGrace
          /\ \A d \in DeliveryIdx : deliveries[d].ok )
        => \A O \in OccurrencesDueSoFar(i) :
              \E d \in DeliveryIdx :
                  deliveries[d].index = i /\ deliveries[d].occ = O

\* C29 witness: an occurrence that fell between two polls 25 s apart, the
\* earlier more than 5 s before it, was delivered by the later.
C29_Witness ==
    /\ PollsWithinGrace
    /\ SparseRecurring(1)
    /\ \E d \in DeliveryIdx :
          /\ deliveries[d].cycle >= 2
          /\ deliveries[d].occ \in OccurrencesDueSoFar(1)
          /\ polls[deliveries[d].cycle] - polls[deliveries[d].cycle - 1] = 2 * 10 + 5
          /\ polls[deliveries[d].cycle - 1] < deliveries[d].occ - 5
          /\ deliveries[d].now > deliveries[d].occ

---------------------------------------------------------------------------
(* Claims about schedules that have run out (checked under SpecResolver)   *)

\* A one-off schedule whose start instant is older than 5 min at now.
Expired(v, now) ==
    /\ Parsed(v)
    /\ v.rrule = None
    /\ v.rdates = <<>>
    /\ StartInstant(v) < now - 5 * 60

\* A schedule whose rule, bounded by COUNT or UNTIL, has no occurrence at
\* or after now - 20 s, and that has no additional instant there either.
Exhausted(v, now) ==
    /\ Parsed(v)
    /\ v.rrule # None
    /\ ValidRule(Val(v.rrule))
    /\ LET rule == Val(v.rrule)
           S == StartInstant(v)
       IN /\ rule.count # 0 \/ rule.until # None
          /\ \A k \in 0..MaxK :
                ( /\ rule.count = 0 \/ k < rule.count
                  /\ rule.until = None \/ S + k * Period(rule) <= Val(rule.until) )
                => S + k * Period(rule) < now - 2 * 10
    /\ \A a \in AdditionalInstants(v) : a < now - 2 * 10

\* C30: when a one-off start instant is older than 5 min, or a rule is
\* exhausted and no additional instant lies ahead, the resolver returns
\* None, and it returns None for that schedule at every later now.
C30_NoneForever ==
    (rout.done /\ (Expired(rin.vevent, rin.now) \/ Exhausted(rin.vevent, rin.now)))
    => /\ rout.value = None
       /\ \A later \in ResolverNows :
             later > rin.now =>
                calculate_next_occurrence(rin.vevent, later) = None

\* C30 witness: None is returned for a rule exhausted at now, with later
\* instants left to ask at, and the schedule resolved 5 s earlier.
C30_Witness ==
    /\ rout.done
    /\ Exhausted(rin.vevent, rin.now)
    /\ rout.value = None
    /\ calculate_next_occurrence(rin.vevent, rin.now - 5) # None
    /\ \E later \in ResolverNows : later > rin.now

---------------------------------------------------------------------------
(* Claims about a restart of the process (checked under SpecRestart)       *)

Restarted == Len(boots) >= 2

\* The cycle count at the last start of the process
LastBoot == boots[Len(boots)]

\* The first cycle after the last restart has just run.
FirstPollAfterRestart == Restarted /\ cycle = LastBoot + 1

\* The i-th stored task is a one-off task that was delivered with success
\* before the last restart.
DeliveredBeforeRestart(i) ==
    /\ Parsed(TaskAt(i).schedule_vevent)
    /\ OneOffSchedule(TaskAt(i).schedule_vevent)
    /\ \E d \in DeliveryIdx :
          /\ deliveries[d].index = i
          /\ deliveries[d].ok
          /\ deliveries[d].cycle <= LastBoot

\* The last cycle evaluated the i-th record.
EvaluatedInLastCycle(i) ==
    \E e \in 1..Len(evals) : evals[e].index = i /\ evals[e].what # "raised"

\* C31: after a restart the registry is empty, and the first poll after it
\* delivers a one-off task that was delivered with success before the
\* restart exactly when the start instant is still within the catch-up
\* window (S >= now - 5 min) and due (S <= now + 5 s).
C31_RestartForgetsFired ==
    /\ (Restarted /\ cycle = LastBoot) => FIRED_ONCE_TASK_IDS = {}
    /\ FirstPollAfterRestart =>
          \A i \in 1..Len(file.tasks) :
              (DeliveredBeforeRestart(i) /\ EvaluatedInLastCycle(i)) =>
                 LET S == StartInstant(TaskAt(i).schedule_vevent)
                     now == polls[cycle]
                 IN (\E d \in DeliveryIdx :
                        deliveries[d].cycle = cycle /\ deliveries[d].index = i)
                    <=> (S >= now - 5 * 60 /\ S <= now + 5)

\* C31 witness: the first poll after a restart delivered again a one-off
\* task that was in the registry before the restart, its start instant
\* exactly 5 min old.
C31_Witness ==
    /\ FirstPollAfterRestart
    /\ \E i \in 1..Len(file.tasks) :
          /\ DeliveredBeforeRestart(i)
          /\ is_one_off(TaskAt(i).schedule_vevent)
          /\ StartInstant(TaskAt(i).schedule_vevent) = polls[cycle] - 5 * 60
          /\ \E d \in DeliveryIdx :
                deliveries[d].cycle = cycle /\ deliveries[d].index = i

---------------------------------------------------------------------------
(* Claims about the order of a cycle (checked under Spec)                  *)

\* The entries of the last cycle's log that called the resolver
Resolved(e) ==
    evals[e].what \in {"no_occurrence", "not_due", "missing_fields", "delivered"}

\* C32: within one cycle the delivery attempts are made in the order of
\* the records in the loaded collection, each record is attempted at most
\* once, and every record is evaluated, and delivered, against the one now
\* taken at the start of the cycle.
C32_InOrderOnceSameNow ==
    /\ \A i, j \in DeliveryIdx :
          (i < j /\ deliveries[i].cycle = deliveries[j].cycle)
          => deliveries[i].index < deliveries[j].index
    /\ \A d \in DeliveryIdx : deliveries[d].now = polls[deliveries[d].cycle]
    /\ \A e \in 1..Len(evals) :
          /\ evals[e].index >= e
          /\ \A x \in 1..(e - 1) : evals[x].index < evals[e].index
          /\ Resolved(e) =>
                evals[e].occ =
                   calculate_next_occurrence(TaskAt(evals[e].index).schedule_vevent,
                                             polls[cycle])

\* C32 witness: one cycle delivered the first record and then the second,
\* both evaluated at that cycle's now.
C32_Witness ==
    \E i, j \in DeliveryIdx :
        /\ j = i + 1
        /\ deliveries[i].cycle = cycle
        /\ deliveries[j].cycle = cycle
        /\ deliveries[i].index = 1
        /\ deliveries[j].index = 2
        /\ Len(evals) = 2

\* The record at position b has a schedule_vevent that is not a string.
BadRecordAt(b) ==
    b <= Len(file.tasks) /\ TaskAt(b).schedule_vevent.kind = "nonstring"

\* The first such position
FirstBadRecord ==
    CHOOSE b \in 1..Len(file.tasks) :
        BadRecordAt(b) /\ \A x \in 1..(b - 1) : ~BadRecordAt(x)

\* The last cycle read the file.
LastCycleLoaded == evals # <<>>

\* C33: when a stored record raises outside the resolver and the delivery
\* client (its schedule_vevent is not a string), the cycle is abandoned at
\* that record: the records before it are evaluated as usual (delivered
\* exactly when an occurrence is returned, due, and both fields are there),
\* and no record after it is evaluated or delivered, in that cycle or in
\* any later one, while the file stays the same.
C33_AbandonedAtBadRecord ==
    (\E b \in 1..Len(file.tasks) : BadRecordAt(b)) =>
        LET b == FirstBadRecord
        IN /\ \A d \in DeliveryIdx : deliveries[d].index < b
           /\ \A e \in 1..Len(evals) : evals[e].index <= b
           /\ LastCycleLoaded =>
                 /\ Len(evals) = b
                 /\ evals[b].what = "raised"
                 /\ \A x \in 1..(b - 1) :
                       /\ evals[x].index = x
                       /\ evals[x].what # "raised"
                       /\ evals[x].what = "delivered"
                          <=> ( /\ evals[x].occ # None
                                /\ Val(evals[x].occ) <= polls[cycle] + 5
                                /\ TaskAt(x).conversation_id # ""
                                /\ TaskAt(x).user_prompt # "" )
                       /\ evals[x].what = "delivered"
                          => \E d \in DeliveryIdx :
                                /\ deliveries[d].cycle = cycle
                                /\ deliveries[d].index = x

\* C33 witness: in the second cycle or later, the record before the bad
\* one was delivered and the recurring record after it, due as well, was
\* not looked at.
C33_Witness ==
    /\ cycle >= 2
    /\ BadRecordAt(2)
    /\ Len(file.tasks) = 3
    /\ Len(evals) = 2
    /\ evals[1].what = "delivered"
    /\ TaskAt(3).schedule_vevent = MinutelyEvent
    /\ calculate_next_occurrence(MinutelyEvent, polls[cycle]) # None
    /\ IsDue(Val(calculate_next_occurrence(MinutelyEvent, polls[cycle])), polls[cycle])

---------------------------------------------------------------------------
(* Claims about a failed delivery of a recurring occurrence (checked      *)
(* under SpecRetry)                                                        *)

\* The occurrences of record i whose delivery failed
FailedOccurrences(i) ==
    {deliveries[d].occ :
        d \in {x \in DeliveryIdx : deliveries[x].index = i /\ ~deliveries[x].ok}}

\* Every delivery of occurrence O of record i was made with now <= O + G.
DeliveredWithinGrace(i, O) ==
    \A d \in DeliveryIdx :
        (deliveries[d].index = i /\ deliveries[d].occ = O)
        => deliveries[d].now <= O + grace_period_for_just_missed

\* The last cycle is the first one with now > O + G.
FirstCycleAfterGrace(O) ==
    /\ cycle >= 2
    /\ polls[cycle] > O + grace_period_for_just_missed
    /\ polls[cycle - 1] <= O + grace_period_for_just_missed

\* The occurrence of the rule of record i right after O
FollowingOccurrence(i, O) ==
    LET v == TaskAt(i).schedule_vevent
    IN RuleAfter(Val(v.rrule), StartInstant(v), O, FALSE)

\* The first occurrence of the rule of record i at or after now - G
FirstInGrace(i, now) ==
    LET v == TaskAt(i).schedule_vevent
    IN RuleAfter(Val(v.rrule), StartInstant(v),
                 now - grace_period_for_just_missed, TRUE)

\* C34 as stated: a recurring occurrence O whose delivery failed is
\* delivered only in cycles with now <= O + G, and in the first cycle with
\* now > O + G the resolver returns the occurrence right after O.
C34_FollowingOccurrenceReturned ==
    \A i \in 1..Len(file.tasks) :
        PlainRecurring(TaskAt(i).schedule_vevent) =>
            \A O \in FailedOccurrences(i) :
                /\ DeliveredWithinGrace(i, O)
                /\ FirstCycleAfterGrace(O) =>
                      \A e \in 1..Len(evals) :
                          evals[e].index = i
                          => evals[e].occ = FollowingOccurrence(i, O)

\* C34: a recurring occurrence O whose delivery failed is delivered only in
\* cycles with now <= O + G; in the first cycle with now > O + G the
\* resolver returns the first occurrence at or after now - G, which is
\* later than O or is none, and is the occurrence right after O when the
\* period of the rule is at least the time between that cycle and the one
\* before.
C34_LaterOccurrenceReturned ==
    \A i \in 1..Len(file.tasks) :
        PlainRecurring(TaskAt(i).schedule_vevent) =>
            \A O \in FailedOccurrences(i) :
                /\ DeliveredWithinGrace(i, O)
                /\ FirstCycleAfterGrace(O) =>
                      \A e \in 1..Len(evals) :
                          evals[e].index = i =>
                              /\ evals[e].occ = FirstInGrace(i, polls[cycle])
                              /\ evals[e].occ = None \/ Val(evals[e].occ) > O
                              /\ Period(Val(TaskAt(i).schedule_vevent.rrule))
                                    >= polls[cycle] - polls[cycle - 1]
                                 => evals[e].occ = FollowingOccurrence(i, O)

\* C34 witness: the delivery of an occurrence of the every-minute record
\* failed in every cycle that tried it, and the first cycle later than the
\* grace window got the occurrence of the next minute.
C34_Witness ==
    /\ file.tasks # <<>>
    /\ TaskAt(1).schedule_vevent = MinutelyEvent
    /\ c0 \in FailedOccurrences(1)
    /\ \A d \in DeliveryIdx : ~deliveries[d].ok
    /\ Len(deliveries) >= 2
    /\ FirstCycleAfterGrace(c0)
    /\ evals # <<>>
    /\ evals[1].occ = Some(c0 + 60)

---------------------------------------------------------------------------
(* Claims about the age of a result (checked under SpecResolver)           *)

\* The oldest instant the resolver may return for fragment v at now
OldestAllowed(v, now) ==
    IF v.rrule = None
    THEN now - catch_up_window
    ELSE now - grace_period_for_just_missed

\* C35: a result of the resolver that is not None is no earlier than
\* now - W when the fragment has no recurrence rule and no earlier than
\* now - G when it has one.
C35_ResultWithinWindow ==
    (rout.done /\ rout.value # None)
    => Val(rout.value) >= OldestAllowed(rin.vevent, rin.now)

\* C35 witness: a fragment with a rule, additional instants and exclusions
\* resolved to the instant at the very edge of its window.
C35_Witness ==
    /\ rout.done
    /\ rin.vevent.kind = "vevent"
    /\ rin.vevent.rrule # None
    /\ rin.vevent.rdates # <<>>
    /\ rin.vevent.exdates # <<>>
    /\ rout.value = Some(rin.now - grace_period_for_just_missed)

---------------------------------------------------------------------------
(* Claims about the frame of a create (checked under SpecStore)            *)

\* The last step was the save of a create that returned success.
CreateSucceeded ==
    /\ last.op = "create"
    /\ last.phase = "saved"
    /\ result.op = "create"
    /\ result.status = "success"

\* The records stored right before the last step
StoredBefore == IF prevFile.status = "list" THEN prevFile.tasks ELSE <<>>

\* C36: after a create that returned success the file holds the records
\* stored before it, unchanged and in their positions, followed by exactly
\* one new record: its id held by no record stored before, status pending,
\* and the conversation_id, user_prompt and fragment of the call.
C36_CreateAppendsOne ==
    CreateSucceeded =>
        /\ file.status = "list"
        /\ Len(file.tasks) = Len(StoredBefore) + 1
        /\ \A i \in 1..Len(StoredBefore) : file.tasks[i] = StoredBefore[i]
        /\ LET new_task == file.tasks[Len(file.tasks)]
           IN /\ new_task.id = result.task_id
              /\ \A i \in 1..Len(StoredBefore) : StoredBefore[i].id # new_task.id
              /\ new_task.status = "pending"
              /\ new_task.conversation_id = last.args.conversation_id
              /\ new_task.user_prompt = last.args.user_prompt
              /\ new_task.schedule_vevent = last.args.schedule_vevent


\* A create whose read returned the stored list, that no other save
\* overtook, and whose write succeeded, appends exactly one record.
CreateAppendsOneWhenStoreWorks ==
    [][\A c \in Callers :
          ( /\ cpc[c] = "create_loaded"
            /\ cpc'[c] = "idle"
            /\ last'.write = "ok"
            /\ ctasks[c] = (IF file.status = "list" THEN file.tasks ELSE <<>>) )
          => C36_CreateAppendsOne']_vars

---------------------------------------------------------------------------
(* Claims about a cycle that finds no task (checked under Spec)            *)

\* The file holds no list of tasks, or an empty one.
NoTaskStored == file.status # "list" \/ file.tasks = <<>>

\* The first record of the file, evaluated against now
FirstRecordEvaluated(e, now) ==
    /\ e.index = 1
    /\ e.id = TaskAt(1).id
    /\ e.what \in {"delivered", "not_due"}
       => e.occ = calculate_next_occurrence(TaskAt(1).schedule_vevent, now)

\* C37: a cycle that finds the collection missing, empty, not a list or
\* unreadable evaluates nothing, delivers nothing, leaves the registry and
\* the file as they are and goes to sleep; the cycle after such a cycle
\* loads the file again: it evaluates nothing once more, or the first
\* record of the file against its own now.
C37_EmptyLoadCycle ==
    [][cycle' # cycle =>
          /\ NoTaskStored => evals' = <<>>
          /\ evals' = <<>> =>
                /\ deliveries' = deliveries
                /\ FIRED_ONCE_TASK_IDS' = FIRED_ONCE_TASK_IDS
                /\ file' = file
                /\ pc' = "sleep"
          /\ (cycle >= 1 /\ evals = <<>>) =>
                \/ evals' = <<>>
                \/ FirstRecordEvaluated(evals'[1], clock)]_vars

\* C37 witness: the every-minute record, delivered in the last cycle, was
\* due in the cycle before as well and not delivered then: that cycle could
\* not read the file, and the registry kept the id of the one-off record.
C37_Witness ==
    /\ cycle >= 3
    /\ Len(file.tasks) = 2
    /\ TaskAt(1) = Task(Uuid(1), "c1", "p1", MinutelyEvent)
    /\ FIRED_ONCE_TASK_IDS = {Uuid(2)}
    /\ \E d \in DeliveryIdx :
          deliveries[d].cycle = cycle /\ deliveries[d].index = 1
    /\ \E d \in DeliveryIdx :
          deliveries[d].cycle = cycle - 2 /\ deliveries[d].index = 2
                                           /\ deliveries[d].ok
    /\ \A d \in DeliveryIdx : deliveries[d].cycle # cycle - 1
    /\ LET occ == calculate_next_occurrence(MinutelyEvent, polls[cycle - 1])
       IN occ # None /\ IsDue(Val(occ), polls[cycle - 1])

============================================================================
